---- MODULE Spec2Model ----
(***************************************************************************)
(* Model of the protocol-translating proxy (anthropic-proxy-rs).           *)
(*                                                                         *)
(* Spec      : one streaming request, translated by the O->A translator    *)
(*             (streaming/openai_to_anthropic) or by the A->O translator   *)
(*             (streaming/anthropic_to_openai), frame by frame             *)
(* SpecBytes : the byte-chunk reassembly loop both translators share       *)
(* SpecRouter: one request through a handler: the routing decision and     *)
(*             the backend call it is dispatched to                        *)
(* SpecTransform : one call of one of the four request/response            *)
(*             transformers on a bounded input                             *)
(* SpecAToO  : the A->O direction: its two transformers and its stream     *)
(*             translator                                                  *)
(* SpecProxy : one request through a handler with its body bytes, the      *)
(*             call to the upstream and the response to the client         *)
(* SpecTasks : two stream translator instances polled in any order         *)
(*                                                                         *)
(* An Option<T> of the source is a sequence of length at most one:         *)
(* None is << >> and Some(x) is <<x>>.  A String that the code only ever   *)
(* appends to is the sequence of the fragments appended.                   *)
(***************************************************************************)
EXTENDS Integers, Sequences, FiniteSets, TLC

VARIABLES
    oa,        \* O->A translator: the locals of create_stream
    oaOut,     \* O->A translator: the events yielded so far, in order
    oaIn,      \* O->A translator: the upstream frames consumed so far
    oaPc,      \* O->A translator: "run" in the while loop, "done" after it
    oaFeed,    \* O->A upstream: "any" stream or the "recorded" stream
    ao,        \* A->O translator: the locals of create_stream
    aoOut,     \* A->O translator: the chunks yielded so far, in order
    aoIn,      \* A->O translator: the upstream frames consumed so far
    aoPc,      \* A->O translator: "run" in the while loop, "done" after it
    aoFeed,    \* A->O upstream: "any" stream or the "recorded" stream
    wire,      \* reassembly: the bytes the upstream will deliver
    wirePos,   \* reassembly: how many of them have been delivered
    buffer,    \* reassembly: the text buffer of create_stream
    payloads,  \* reassembly: the data payloads handed to the frame parser
    bytesPc,   \* reassembly: "run" in the while loop, "done" after it
    config,          \* router: the Config the server was started with
    request_format,  \* router: the endpoint's RequestFormat
    model_name,      \* router: the request's model string
    decision,        \* router: what RoutingDecision::decide returned
    forwarded,       \* router: the upstream request built, or the error
    routerPc,        \* router: "request" before the handler ran, "done" after
    body,            \* handler: the bytes of the request body received
    reply,           \* handler: what the upstream answers to a request
    sent,            \* handler: the bytes of the body sent upstream
    response,        \* handler: the response returned to the client
    xfIn,      \* transformer: the value to transform, tagged with its kind
    xfOut,     \* transformer: the ProxyResult returned
    xfPc,      \* transformer: "ready" before the call, "done" after
    tasks      \* concurrent requests: the stream translator of each task

oaVars == <<oa, oaOut, oaIn, oaPc, oaFeed>>
aoVars == <<ao, aoOut, aoIn, aoPc, aoFeed>>
byteVars == <<wire, wirePos, buffer, payloads, bytesPc>>
routerVars == <<config, request_format, model_name, decision, forwarded,
                routerPc, body, reply, sent, response>>
xfVars == <<xfIn, xfOut, xfPc>>
taskVars == <<tasks>>
vars == <<oa, oaOut, oaIn, oaPc, oaFeed, ao, aoOut, aoIn, aoPc, aoFeed,
          wire, wirePos, buffer, payloads, bytesPc,
          config, request_format, model_name, decision, forwarded, routerPc,
          body, reply, sent, response, xfIn, xfOut, xfPc, tasks>>

----------------------------------------------------------------------------
(* Bounds *)

\* Frames an upstream of the "any" kind delivers before it ends.
MaxFrames == 3

\* Bytes in one upstream chunk of the reassembly model.
MaxChunk == 3

----------------------------------------------------------------------------
(* Options *)

None == << >>
Some(x) == <<x>>
IsSome(o) == o # << >>
unwrap_or_default(o) == IF o = << >> THEN "" ELSE o[1]

----------------------------------------------------------------------------
(* Stop-reason mapping, transform/utils.rs *)

\* The arms for "stop" and "length" exchanged.
map_stop_reason_swapped(finish_reason) ==
    IF finish_reason = None THEN None
    ELSE LET r == finish_reason[1] IN
         Some(CASE r = "tool_calls" -> "tool_use"
                [] r = "stop" -> "max_tokens"
                [] r = "length" -> "end_turn"
                [] OTHER -> "end_turn")

map_stop_reason(finish_reason) ==
    IF finish_reason = None THEN None
    ELSE LET r == finish_reason[1] IN
         Some(CASE r = "tool_calls" -> "tool_use"
                [] r = "stop" -> "end_turn"
                [] r = "length" -> "max_tokens"
                [] OTHER -> "end_turn")

----------------------------------------------------------------------------
(* O-format stream chunks (openai::StreamChunk as create_stream reads it)  *)

Function(name, arguments) == [name |-> name, arguments |-> arguments]
ToolCallDelta(id, function) == [id |-> id, function |-> function]
Choice(reasoning, content, tool_calls, finish_reason) ==
    [reasoning |-> reasoning, content |-> content,
     tool_calls |-> tool_calls, finish_reason |-> finish_reason]
StreamChunk(id, model, choices, usage) ==
    [kind |-> "chunk", id |-> id, model |-> model, choices |-> choices,
     usage |-> usage]

\* The other things a frame's line can be.
DoneFrame == [kind |-> "done"]            \* data: [DONE]
MalformedFrame == [kind |-> "malformed"]  \* data: <not a StreamChunk>
NonDataFrame == [kind |-> "nondata"]      \* a line without the data: prefix

----------------------------------------------------------------------------
(* A-format events the O->A translator yields *)

MessageStart(id, model) ==
    [type |-> "message_start", id |-> id, model |-> model,
     role |-> "assistant", input_tokens |-> 0, output_tokens |-> 0]
ContentBlockStart(index, block) ==
    [type |-> "content_block_start", index |-> index, block |-> block]
ToolUseBlockStart(index, id, name) ==
    [type |-> "content_block_start", index |-> index, block |-> "tool_use",
     id |-> id, name |-> name]
ContentBlockDelta(index, delta, text) ==
    [type |-> "content_block_delta", index |-> index, delta |-> delta,
     text |-> text]
ContentBlockStop(index) == [type |-> "content_block_stop", index |-> index]
MessageDelta(stop_reason, usage) ==
    [type |-> "message_delta", stop_reason |-> stop_reason,
     stop_sequence |-> None, usage |-> usage]
MessageStop == [type |-> "message_stop"]
ErrorEvent(detail) ==
    [type |-> "error", error |-> "stream_error", message |-> detail]

----------------------------------------------------------------------------
(* The O->A translator, streaming/openai_to_anthropic.rs                   *)

OAInit ==
    [message_id |-> None, current_model |-> None, content_index |-> 0,
     tool_call_id |-> None, tool_call_name |-> None, tool_call_args |-> << >>,
     has_sent_message_start |-> FALSE, current_block_type |-> None]

\* A step of the translator threads the locals (st) and what it yields (ev).
Yield(r, e) == [r EXCEPT !.ev = Append(@, e)]

\* The id and model of every chunk overwrite the captured ones.
OACaptureLatest(st, chunk) ==
    [st EXCEPT !.message_id = Some(chunk.id),
               !.current_model = Some(chunk.model)]

OACapture(st, chunk) ==
    [st EXCEPT
       !.message_id = IF @ = None THEN Some(chunk.id) ELSE @,
       !.current_model = IF @ = None THEN Some(chunk.model) ELSE @]

OAMessageStart(r) ==
    IF ~r.st.has_sent_message_start
    THEN [Yield(r, MessageStart(unwrap_or_default(r.st.message_id),
                                unwrap_or_default(r.st.current_model)))
            EXCEPT !.st.has_sent_message_start = TRUE]
    ELSE r

OAReasoning(r, choice) ==
    IF IsSome(choice.reasoning)
    THEN LET r1 == IF r.st.current_block_type = None
                   THEN [Yield(r, ContentBlockStart(r.st.content_index, "thinking"))
                           EXCEPT !.st.current_block_type = Some("thinking")]
                   ELSE r
         IN Yield(r1, ContentBlockDelta(r1.st.content_index, "thinking_delta",
                                        choice.reasoning[1]))
    ELSE r

OACloseOpenBlock(r) ==
    IF IsSome(r.st.current_block_type)
    THEN [Yield(r, ContentBlockStop(r.st.content_index))
            EXCEPT !.st.content_index = @ + 1]
    ELSE r

\* Without the is_empty() test of line 113.
OAContentEvenEmpty(r, choice) ==
    IF IsSome(choice.content)
    THEN LET r1 == IF r.st.current_block_type # Some("text")
                   THEN LET r0 == OACloseOpenBlock(r) IN
                        [Yield(r0, ContentBlockStart(r0.st.content_index, "text"))
                           EXCEPT !.st.current_block_type = Some("text")]
                   ELSE r
         IN Yield(r1, ContentBlockDelta(r1.st.content_index, "text_delta",
                                        choice.content[1]))
    ELSE r

OAContent(r, choice) ==
    IF IsSome(choice.content) /\ choice.content[1] # ""
    THEN LET r1 == IF r.st.current_block_type # Some("text")
                   THEN LET r0 == OACloseOpenBlock(r) IN
                        [Yield(r0, ContentBlockStart(r0.st.content_index, "text"))
                           EXCEPT !.st.current_block_type = Some("text")]
                   ELSE r
         IN Yield(r1, ContentBlockDelta(r1.st.content_index, "text_delta",
                                        choice.content[1]))
    ELSE r

OAToolCall(r, tool_call) ==
    LET r1 == IF IsSome(tool_call.id)
              THEN [OACloseOpenBlock(r)
                      EXCEPT !.st.tool_call_id = Some(tool_call.id[1]),
                             !.st.tool_call_args = << >>]
              ELSE r
        function == tool_call.function[1]
        r2 == IF IsSome(function.name)
              THEN [Yield(r1, ToolUseBlockStart(r1.st.content_index,
                                  unwrap_or_default(r1.st.tool_call_id),
                                  function.name[1]))
                      EXCEPT !.st.tool_call_name = Some(function.name[1]),
                             !.st.current_block_type = Some("tool_use")]
              ELSE r1
        r3 == IF IsSome(function.arguments)
              THEN [Yield(r2, ContentBlockDelta(r2.st.content_index,
                                  "input_json_delta", function.arguments[1]))
                      EXCEPT !.st.tool_call_args = Append(@, function.arguments[1])]
              ELSE r2
    IN IF IsSome(tool_call.function) THEN r3 ELSE r1

RECURSIVE OAToolCallList(_, _)
OAToolCallList(r, tool_calls) ==
    IF tool_calls = << >> THEN r
    ELSE OAToolCallList(OAToolCall(r, Head(tool_calls)), Tail(tool_calls))

OAToolCalls(r, choice) ==
    IF IsSome(choice.tool_calls) THEN OAToolCallList(r, choice.tool_calls[1])
    ELSE r

OAFinish(r, choice, chunk) ==
    IF IsSome(choice.finish_reason)
    THEN LET r1 == IF IsSome(r.st.current_block_type)
                   THEN Yield(r, ContentBlockStop(r.st.content_index))
                   ELSE r
         IN Yield(r1, MessageDelta(map_stop_reason(choice.finish_reason),
                                   chunk.usage))
    ELSE r

\* [DONE] consumed without a message_stop.
OADoneSilent(st) == [st |-> st, ev |-> << >>]

\* data: [DONE], lines 43-49.
OADone(st) == [st |-> st, ev |-> <<MessageStop>>]

\* A payload that fails to parse makes the translator forget that it sent
\* message_start.
OALineMalformedResets(st, frame) ==
    IF frame.kind = "done" THEN OADone(st)
    ELSE IF frame.kind = "chunk" THEN
        LET st1 == OACapture(st, frame)
            r0 == [st |-> st1, ev |-> << >>]
        IN IF frame.choices = << >> THEN r0
           ELSE LET choice == Head(frame.choices) IN
                OAFinish(OAToolCalls(OAContent(OAReasoning(OAMessageStart(r0),
                    choice), choice), choice), choice, frame)
    ELSE IF frame.kind = "malformed"
    THEN [st |-> [st EXCEPT !.has_sent_message_start = FALSE], ev |-> << >>]
    ELSE [st |-> st, ev |-> << >>]

\* One data: line of a frame, lines 42-240.
OALine(st, frame) ==
    IF frame.kind = "done" THEN OADone(st)
    ELSE IF frame.kind = "chunk" THEN
        LET st1 == OACapture(st, frame)
            r0 == [st |-> st1, ev |-> << >>]
        IN IF frame.choices = << >> THEN r0
           ELSE LET choice == Head(frame.choices) IN
                OAFinish(OAToolCalls(OAContent(OAReasoning(OAMessageStart(r0),
                    choice), choice), choice), choice, frame)
    ELSE [st |-> st, ev |-> << >>]

----------------------------------------------------------------------------
(* A-format events the A->O translator reads (a serde_json::Value, read    *)
(* with get(..): a key that is absent or not a string is None)             *)

AEvent(type, message, content_block, delta) ==
    [kind |-> "event", type |-> type, message |-> message,
     content_block |-> content_block, delta |-> delta]
AMessage(id, model) == [id |-> id, model |-> model]
ABlock(type, id, name) == [type |-> type, id |-> id, name |-> name]
ADelta(type, text, partial_json, stop_reason) ==
    [type |-> type, text |-> text, partial_json |-> partial_json,
     stop_reason |-> stop_reason]

(* O-format output of the A->O translator.  The created field is the wall  *)
(* clock at the time of the yield and is left out of the chunk.            *)
ODelta(content, tool_calls) == [content |-> content, tool_calls |-> tool_calls]
OToolCall(id, type, name, arguments) ==
    [index |-> 0, id |-> id, type |-> type, name |-> name,
     arguments |-> arguments]
OChunk(id, model, delta, finish_reason) ==
    [object |-> "chat.completion.chunk", id |-> id, model |-> model,
     index |-> 0, delta |-> delta, finish_reason |-> finish_reason]
DoneLine == [object |-> "[DONE]"]

----------------------------------------------------------------------------
(* The A->O translator, streaming/anthropic_to_openai.rs                   *)

AOInit == [message_id |-> "", model |-> "", current_content |-> << >>]

AOMessageStart(st, event) ==
    IF IsSome(event.message)
    THEN [st |-> [st EXCEPT
                    !.message_id = unwrap_or_default(event.message[1].id),
                    !.model = unwrap_or_default(event.message[1].model)],
          ev |-> << >>]
    ELSE [st |-> st, ev |-> << >>]

AOContentBlockDelta(st, event) ==
    IF IsSome(event.delta)
    THEN LET delta == event.delta[1]
             delta_type == unwrap_or_default(delta.type)
         IN CASE delta_type = "text_delta" /\ IsSome(delta.text) ->
                   [st |-> [st EXCEPT !.current_content = Append(@, delta.text[1])],
                    ev |-> <<OChunk(st.message_id, st.model,
                                    ODelta(Some(delta.text[1]), None), None)>>]
              [] delta_type = "input_json_delta" /\ IsSome(delta.partial_json) ->
                   [st |-> st,
                    ev |-> <<OChunk(st.message_id, st.model,
                                    ODelta(None, Some(<<OToolCall(None, None, None,
                                        delta.partial_json[1])>>)), None)>>]
              [] OTHER -> [st |-> st, ev |-> << >>]
    ELSE [st |-> st, ev |-> << >>]

AOContentBlockStart(st, event) ==
    IF IsSome(event.content_block)
       /\ unwrap_or_default(event.content_block[1].type) = "tool_use"
    THEN LET block == event.content_block[1] IN
         [st |-> st,
          ev |-> <<OChunk(st.message_id, st.model,
                          ODelta(None, Some(<<OToolCall(
                              Some(unwrap_or_default(block.id)), Some("function"),
                              Some(unwrap_or_default(block.name)), "")>>)), None)>>]
    ELSE [st |-> st, ev |-> << >>]

\* The tool_use arm lost.
AOFinishReasonNoTools(stop_reason) ==
    CASE stop_reason = "end_turn" -> "stop"
      [] stop_reason = "max_tokens" -> "length"
      [] OTHER -> "stop"

AOFinishReason(stop_reason) ==
    CASE stop_reason = "end_turn" -> "stop"
      [] stop_reason = "tool_use" -> "tool_calls"
      [] stop_reason = "max_tokens" -> "length"
      [] OTHER -> "stop"

AOMessageDelta(st, event) ==
    IF IsSome(event.delta) /\ IsSome(event.delta[1].stop_reason)
    THEN [st |-> st,
          ev |-> <<OChunk(st.message_id, st.model, ODelta(None, None),
                          Some(AOFinishReason(event.delta[1].stop_reason[1])))>>]
    ELSE [st |-> st, ev |-> << >>]

\* message_stop consumed without the terminator.
AOMessageStopSilent(st) == [st |-> st, ev |-> << >>]

\* "message_stop", lines 177-179.
AOMessageStop(st) == [st |-> st, ev |-> <<DoneLine>>]

\* One data: line of a frame, lines 36-183.
AOLine(st, frame) ==
    IF frame.kind = "event" THEN
        CASE frame.type = "message_start" -> AOMessageStart(st, frame)
          [] frame.type = "content_block_delta" -> AOContentBlockDelta(st, frame)
          [] frame.type = "content_block_start" -> AOContentBlockStart(st, frame)
          [] frame.type = "message_delta" -> AOMessageDelta(st, frame)
          [] frame.type = "message_stop" -> AOMessageStop(st)
          [] OTHER -> [st |-> st, ev |-> << >>]
    ELSE [st |-> st, ev |-> << >>]

----------------------------------------------------------------------------
(* Upstream of the O->A translator *)

ModelOf(id) == IF id = "c1" THEN "gpt-4" ELSE "gpt-x"
OneChoice(id, reasoning, content, tool_calls, finish_reason, usage) ==
    StreamChunk(id, ModelOf(id),
                <<Choice(reasoning, content, tool_calls, finish_reason)>>, usage)
OpenTool(id, name) == ToolCallDelta(Some(id), Some(Function(Some(name), Some(""))))
ArgsOnly(arguments) == ToolCallDelta(None, Some(Function(None, Some(arguments))))

\* The frames an upstream of the "any" kind can deliver.
OFrames ==
    {DoneFrame, MalformedFrame, NonDataFrame}
    \cup {StreamChunk(id, ModelOf(id), << >>, None) : id \in {"c1", "c2"}}
    \cup {OneChoice(id, None, None, None, None, None) : id \in {"c1", "c2"}}
    \cup {OneChoice("c1", Some("hm"), None, None, None, None),
          OneChoice("c1", Some("hm"), Some("Hi"), None, None, None)}
    \cup {OneChoice("c1", None, Some(c), None, None, None) : c \in {"", "Hi", "yo"}}
    \cup {OneChoice("c1", None, None, Some(<<t>>), None, None) :
            t \in {OpenTool("t1", "search"), ArgsOnly("{a"), ArgsOnly("b}"),
                   ToolCallDelta(None, Some(Function(Some("search"), None))),
                   ToolCallDelta(Some("t2"), None)}}
    \cup {OneChoice("c1", None, None,
                    Some(<<OpenTool("t1", "search"), OpenTool("t2", "fetch")>>),
                    None, None)}
    \cup {OneChoice("c1", None, None, None, Some(f), None) :
            f \in {"tool_calls", "length", "content_filter"}}
    \cup {OneChoice("c1", None, None, None, Some("stop"), Some(1)),
          OneChoice("c1", None, Some("Hi"), None, Some("stop"), None)}
    \* two choices: create_stream reads choices.first() only
    \cup {StreamChunk("c1", "gpt-4",
                       <<Choice(None, Some("yo"), None, None),
                         Choice(None, Some("zz"), None, Some("stop"))>>, None)}

\* The recorded O-format upstream stream of the end-to-end scenario.
RecordedO ==
    <<OneChoice("c1", None, None, None, None, None),
      OneChoice("c1", None, Some("Hi"), None, None, None),
      OneChoice("c1", None, None, None, Some("stop"), Some(1)),
      DoneFrame>>

ErrorDetails == {"connection reset", "timed out"}
TransportError(detail) == [kind |-> "error", detail |-> detail]

OAIdle ==
    /\ oa = OAInit /\ oaOut = << >> /\ oaIn = << >>
    /\ oaPc = "idle" /\ oaFeed = "none"

OAStart ==
    /\ oa = OAInit /\ oaOut = << >> /\ oaIn = << >>
    /\ oaPc = "run" /\ oaFeed \in {"any", "recorded"}

\* stream.next() yields Ok(bytes) completing a frame: one pass of lines 33-242.
OAFrame ==
    /\ oaPc = "run"
    /\ \E f \in (IF oaFeed = "any" THEN OFrames ELSE {RecordedO[i] : i \in 1..Len(RecordedO)}) :
         /\ IF oaFeed = "any" THEN Len(oaIn) < MaxFrames
            ELSE Len(oaIn) < Len(RecordedO) /\ f = RecordedO[Len(oaIn) + 1]
         /\ LET r == OALine(oa, f) IN
              /\ oa' = r.st
              /\ oaOut' = oaOut \o r.ev
         /\ oaIn' = Append(oaIn, f)
    /\ UNCHANGED <<oaPc, oaFeed, aoVars, byteVars, routerVars, xfVars, taskVars>>

\* The error event is yielded but the loop is not left.
OAErrorNoBreak ==
    /\ oaPc = "run" /\ oaFeed = "any" /\ Len(oaIn) < MaxFrames
    /\ \E detail \in ErrorDetails :
         /\ oaOut' = Append(oaOut, ErrorEvent(detail))
         /\ oaIn' = Append(oaIn, TransportError(detail))
    /\ UNCHANGED <<oa, oaPc, oaFeed, aoVars, byteVars, routerVars, xfVars, taskVars>>

\* stream.next() yields Err(e): lines 244-257.
OAError ==
    /\ oaPc = "run" /\ oaFeed = "any"
    /\ \E detail \in ErrorDetails :
         /\ oaOut' = Append(oaOut, ErrorEvent(detail))
         /\ oaIn' = Append(oaIn, TransportError(detail))
    /\ oaPc' = "done"
    /\ UNCHANGED <<oa, oaFeed, aoVars, byteVars, routerVars, xfVars, taskVars>>

\* stream.next() yields None: the while loop of line 27 ends.
OAEnd ==
    /\ oaPc = "run"
    /\ oaFeed = "recorded" => Len(oaIn) = Len(RecordedO)
    /\ oaPc' = "done"
    /\ UNCHANGED <<oa, oaOut, oaIn, oaFeed, aoVars, byteVars, routerVars, xfVars, taskVars>>

----------------------------------------------------------------------------
(* Upstream of the A->O translator *)

TextDelta(text) ==
    AEvent("content_block_delta", None, None,
           Some(ADelta(Some("text_delta"), Some(text), None, None)))
InputJsonDelta(partial_json) ==
    AEvent("content_block_delta", None, None,
           Some(ADelta(Some("input_json_delta"), None, Some(partial_json), None)))
BlockStartEvent(type, id, name) ==
    AEvent("content_block_start", None, Some(ABlock(Some(type), id, name)), None)
MessageDeltaEvent(stop_reason) ==
    AEvent("message_delta", None, None,
           Some(ADelta(None, None, None, stop_reason)))
MessageStartEvent(id, model) ==
    AEvent("message_start", Some(AMessage(Some(id), Some(model))), None, None)
MessageStopEvent == AEvent("message_stop", None, None, None)

\* The frames an upstream of the "any" kind can deliver.
AFrames ==
    {MalformedFrame, NonDataFrame, MessageStopEvent,
     MessageStartEvent("m1", "claude-3"),
     AEvent("message_start", None, None, None),
     AEvent("ping", None, None, None),
     AEvent("content_block_stop", None, None, None),
     BlockStartEvent("tool_use", Some("t1"), Some("search")),
     BlockStartEvent("text", None, None),
     BlockStartEvent("thinking", None, None),
     TextDelta("Hi"), TextDelta("yo"),
     InputJsonDelta("{\"q\":\"r"),
     AEvent("content_block_delta", None, None,
            Some(ADelta(Some("text_delta"), None, None, None))),
     AEvent("content_block_delta", None, None,
            Some(ADelta(Some("thinking_delta"), Some("hmm"), None, None)))}
    \cup {MessageDeltaEvent(r) :
            r \in {None, Some("end_turn"), Some("tool_use"), Some("max_tokens"),
                   Some("refusal")}}

\* The recorded A-format upstream stream of the end-to-end scenario.
RecordedA ==
    <<MessageStartEvent("m1", "claude-3"),
      BlockStartEvent("tool_use", Some("t1"), Some("search")),
      InputJsonDelta("{\"q\":\"r"),
      InputJsonDelta("ust\"}"),
      MessageDeltaEvent(Some("tool_use")),
      MessageStopEvent>>

AOIdle ==
    /\ ao = AOInit /\ aoOut = << >> /\ aoIn = << >>
    /\ aoPc = "idle" /\ aoFeed = "none"

AOStart ==
    /\ ao = AOInit /\ aoOut = << >> /\ aoIn = << >>
    /\ aoPc = "run" /\ aoFeed \in {"any", "recorded"}

\* stream.next() yields Ok(bytes) completing a frame: one pass of lines 27-185.
AOFrame ==
    /\ aoPc = "run"
    /\ \E f \in (IF aoFeed = "any" THEN AFrames ELSE {RecordedA[i] : i \in 1..Len(RecordedA)}) :
         /\ IF aoFeed = "any" THEN Len(aoIn) < MaxFrames
            ELSE Len(aoIn) < Len(RecordedA) /\ f = RecordedA[Len(aoIn) + 1]
         /\ LET r == AOLine(ao, f) IN
              /\ ao' = r.st
              /\ aoOut' = aoOut \o r.ev
         /\ aoIn' = Append(aoIn, f)
    /\ UNCHANGED <<aoPc, aoFeed, oaVars, byteVars, routerVars, xfVars, taskVars>>

\* stream.next() yields Err(e): lines 187-190.
AOError ==
    /\ aoPc = "run" /\ aoFeed = "any"
    /\ \E detail \in ErrorDetails :
         aoIn' = Append(aoIn, TransportError(detail))
    /\ aoPc' = "done"
    /\ UNCHANGED <<ao, aoOut, aoFeed, oaVars, byteVars, routerVars, xfVars, taskVars>>

\* stream.next() yields None: the while loop of line 21 ends.
AOEnd ==
    /\ aoPc = "run"
    /\ aoFeed = "recorded" => Len(aoIn) = Len(RecordedA)
    /\ aoPc' = "done"
    /\ UNCHANGED <<ao, aoOut, aoIn, aoFeed, oaVars, byteVars, routerVars, xfVars, taskVars>>

----------------------------------------------------------------------------
(* Reassembly of frames from byte chunks: lines 29-42 of                   *)
(* streaming/openai_to_anthropic.rs, identical to lines 23-36 of           *)
(* streaming/anthropic_to_openai.rs.                                       *)
(*                                                                         *)
(* A byte is a string: an ASCII byte is its character, "C3" and "A9" are   *)
(* the two bytes of the UTF-8 encoding of U+00E9.  A text is a sequence of *)
(* characters, where "U+00E9" and "U+FFFD" are single characters.          *)

NL == "\n"
CR == "\r"
LeadByte == "C3"
ContinuationByte == "A9"
EAcute == "U+00E9"
Replacement == "U+FFFD"

\* String::from_utf8_lossy on one chunk, line 30.
RECURSIVE from_utf8_lossy(_)
from_utf8_lossy(bytes) ==
    IF bytes = << >> THEN << >>
    ELSE IF Head(bytes) = LeadByte
         THEN IF Len(bytes) >= 2 /\ bytes[2] = ContinuationByte
              THEN <<EAcute>> \o from_utf8_lossy(Tail(Tail(bytes)))
              ELSE <<Replacement>> \o from_utf8_lossy(Tail(bytes))
    ELSE IF Head(bytes) = ContinuationByte
         THEN <<Replacement>> \o from_utf8_lossy(Tail(bytes))
    ELSE <<Head(bytes)>> \o from_utf8_lossy(Tail(bytes))

\* buffer.find("\n\n"): the 0-based position of the first delimiter, or None.
Find(text) ==
    LET hits == {i \in 1..(Len(text) - 1) : text[i] = NL /\ text[i + 1] = NL}
    IN IF hits = {} THEN None
       ELSE Some((CHOOSE i \in hits : \A j \in hits : i <= j) - 1)

\* line.trim().is_empty()
TrimIsEmpty(text) == \A i \in 1..Len(text) : text[i] \in {NL, CR, " "}

\* str::lines(): split at "\n", drop one "\r" before it, no final empty line.
RECURSIVE Lines(_, _)
Lines(text, current) ==
    IF text = << >>
    THEN IF current = << >> THEN << >> ELSE <<current>>
    ELSE IF Head(text) = NL
         THEN LET l == IF current # << >> /\ current[Len(current)] = CR
                       THEN SubSeq(current, 1, Len(current) - 1)
                       ELSE current
              IN <<l>> \o Lines(Tail(text), << >>)
    ELSE Lines(Tail(text), Append(current, Head(text)))

DataPrefix == <<"d", "a", "t", "a", ":", " ">>

\* l.strip_prefix("data: ")
StripPrefix(l) ==
    IF Len(l) >= Len(DataPrefix) /\ SubSeq(l, 1, Len(DataPrefix)) = DataPrefix
    THEN Some(SubSeq(l, Len(DataPrefix) + 1, Len(l)))
    ELSE None

\* for l in line.lines(): the payloads of the data: lines of one frame.
RECURSIVE DataLines(_)
DataLines(ls) ==
    IF ls = << >> THEN << >>
    ELSE LET data == StripPrefix(Head(ls)) IN
         (IF IsSome(data) THEN <<data[1]>> ELSE << >>) \o DataLines(Tail(ls))

\* while let Some(pos) = buffer.find("\n\n"), lines 33-41.
RECURSIVE Drain(_, _)
Drain(buf, out) ==
    LET pos == Find(buf) IN
    IF pos = None THEN [buffer |-> buf, payloads |-> out]
    ELSE LET line == SubSeq(buf, 1, pos[1])
             rest == SubSeq(buf, pos[1] + 3, Len(buf))
         IN IF TrimIsEmpty(line) THEN Drain(rest, out)
            ELSE Drain(rest, out \o DataLines(Lines(line, << >>)))

\* Ok(bytes): lines 29-41 for one chunk.
PushChunk(buf, out, bytes) == Drain(buf \o from_utf8_lossy(bytes), out)

Delim == <<NL, NL>>

\* The byte streams an upstream can deliver.
Wires ==
    {DataPrefix \o <<"x">> \o Delim \o DataPrefix \o <<"y">> \o Delim,
     DataPrefix \o <<LeadByte, ContinuationByte>> \o Delim,
     DataPrefix \o <<"x", LeadByte, ContinuationByte, "y">> \o Delim,
     <<"e", "v", NL>> \o DataPrefix \o <<"x">> \o Delim,
     DataPrefix \o <<"x">> \o <<CR, NL>> \o DataPrefix \o <<"y">> \o Delim,
     Delim \o <<NL>> \o DataPrefix \o <<"x">> \o Delim,
     DataPrefix \o <<"x">> \o Delim \o DataPrefix \o <<"y">>,
     <<" ">> \o Delim \o <<"d", "a", "t", "a", ":", "x">> \o Delim}

BytesIdle ==
    /\ wire = << >> /\ wirePos = 0 /\ buffer = << >> /\ payloads = << >>
    /\ bytesPc = "idle"

BytesStart ==
    /\ wire \in Wires /\ wirePos = 0 /\ buffer = << >> /\ payloads = << >>
    /\ bytesPc = "run"

\* stream.next() yields Ok(bytes) with the next n bytes of the wire.
BytesChunk ==
    /\ bytesPc = "run"
    /\ \E n \in (1..MaxChunk) \cup {Len(wire) - wirePos} :
         /\ n >= 1 /\ wirePos + n <= Len(wire)
         /\ LET r == PushChunk(buffer, payloads,
                               SubSeq(wire, wirePos + 1, wirePos + n))
            IN /\ buffer' = r.buffer
               /\ payloads' = r.payloads
         /\ wirePos' = wirePos + n
    /\ UNCHANGED <<wire, bytesPc, oaVars, aoVars, routerVars, xfVars, taskVars>>

\* At the end of the upstream the rest of the buffer is taken as a frame.
BytesEndFlushes ==
    /\ bytesPc = "run" /\ wirePos = Len(wire)
    /\ LET r == Drain(buffer \o Delim, payloads)
       IN /\ buffer' = r.buffer
          /\ payloads' = r.payloads
    /\ bytesPc' = "done"
    /\ UNCHANGED <<wire, wirePos, oaVars, aoVars, routerVars, xfVars, taskVars>>

\* stream.next() yields None: whatever the buffer still holds is dropped.
BytesEnd ==
    /\ bytesPc = "run" /\ wirePos = Len(wire)
    /\ bytesPc' = "done"
    /\ UNCHANGED <<wire, wirePos, buffer, payloads, oaVars, aoVars, routerVars, xfVars, taskVars>>

----------------------------------------------------------------------------
(* Results and strings *)

\* ProxyResult<T>: Ok(value) or Err(ProxyError), the error with its variant
\* and message.
Ok(value) == [ok |-> TRUE, value |-> value]
Err(kind, message) == [ok |-> FALSE, kind |-> kind, message |-> message]

(* A String the code searches in or trims is the sequence of its pieces:   *)
(* a piece is a run of characters no pattern of the code starts or ends    *)
(* inside.  String::new() is the empty sequence.                           *)
to_lowercase(s) ==
    [i \in 1..Len(s) |->
        CASE s[i] = "CLAUDE" -> "claude"
          [] s[i] = "Anthropic-" -> "anthropic-"
          [] s[i] = "OpenAI/" -> "openai/"
          [] s[i] = "GPT" -> "gpt"
          [] OTHER -> s[i]]
starts_with(s, pat) == Len(s) >= 1 /\ s[1] = pat
contains(s, pat) == \E i \in 1..Len(s) : s[i] = pat

RECURSIVE trim_end_matches(_, _)
trim_end_matches(s, pat) ==
    IF Len(s) >= 1 /\ s[Len(s)] = pat
    THEN trim_end_matches(SubSeq(s, 1, Len(s) - 1), pat)
    ELSE s

----------------------------------------------------------------------------
(* Config (config.rs) *)

Config(routing_mode, anthropic_base_url, anthropic_api_key, openai_base_url, openai_api_key, base_url, api_key, reasoning_model, completion_model) ==
    [routing_mode |-> routing_mode,
     anthropic_base_url |-> anthropic_base_url,
     anthropic_api_key |-> anthropic_api_key,
     openai_base_url |-> openai_base_url,
     openai_api_key |-> openai_api_key,
     base_url |-> base_url,
     api_key |-> api_key,
     reasoning_model |-> reasoning_model,
     completion_model |-> completion_model]

chat_completions_url(c) ==
    IF IsSome(c.base_url)
    THEN Append(trim_end_matches(c.base_url[1], "/"), "/v1/chat/completions")
    ELSE << >>

anthropic_messages_url(c) ==
    IF IsSome(c.anthropic_base_url)
    THEN Append(trim_end_matches(c.anthropic_base_url[1], "/"), "/v1/messages")
    ELSE << >>

openai_chat_completions_url(c) ==
    IF IsSome(c.openai_base_url)
    THEN Append(trim_end_matches(c.openai_base_url[1], "/"),
                "/v1/chat/completions")
    ELSE << >>

----------------------------------------------------------------------------
(* Router (router.rs) *)

RoutingDecision(backend, needs_transform, transform_direction) ==
    [backend |-> backend,
     needs_transform |-> needs_transform,
     transform_direction |-> transform_direction]

\* The OpenAI patterns are tried before the Anthropic ones.
infer_backend_openai_first(m) ==
    LET model_lower == to_lowercase(m) IN
    IF \/ starts_with(model_lower, "gpt")
       \/ contains(model_lower, "openai/")
    THEN "OpenAI"
    ELSE IF \/ starts_with(model_lower, "claude")
            \/ contains(model_lower, "anthropic/")
            \/ contains(model_lower, "anthropic-")
    THEN "Anthropic"
    ELSE "OpenAI"

infer_backend_from_model(m) ==
    LET model_lower == to_lowercase(m) IN
    IF \/ starts_with(model_lower, "claude")
       \/ contains(model_lower, "anthropic/")
       \/ contains(model_lower, "anthropic-")
    THEN "Anthropic"
    ELSE IF \/ starts_with(model_lower, "gpt")
            \/ starts_with(model_lower, "o1")
            \/ starts_with(model_lower, "o3")
            \/ contains(model_lower, "openai/")
            \/ starts_with(model_lower, "text-")
            \/ starts_with(model_lower, "davinci")
            \/ starts_with(model_lower, "curie")
            \/ starts_with(model_lower, "babbage")
            \/ starts_with(model_lower, "ada")
    THEN "OpenAI"
    ELSE "OpenAI"

\* The decision for the generic upstream is returned without its direction.
decide_transform_mode_no_direction(format, c) ==
    IF format = "Anthropic"
    THEN IF c.base_url = None
         THEN Err("Config", "UPSTREAM_BASE_URL is required in Transform mode")
         ELSE Ok(RoutingDecision("Upstream", FALSE, None))
    ELSE Err("Transform",
             "OpenAI endpoint is not supported in Transform mode")

decide_transform_mode(format, c) ==
    IF format = "Anthropic"
    THEN IF c.base_url = None
         THEN Err("Config", "UPSTREAM_BASE_URL is required in Transform mode")
         ELSE Ok(RoutingDecision("Upstream", TRUE, Some("AnthropicToOpenAI")))
    ELSE Err("Transform",
             "OpenAI endpoint is not supported in Transform mode")

\* Passthrough mode asks for the base URL only.
decide_passthrough_mode_url_only(format, c) ==
    IF format = "Anthropic"
    THEN IF c.anthropic_base_url = None
         THEN Err("Config", "ANTHROPIC_BASE_URL and ANTHROPIC_API_KEY are required in Passthrough mode")
         ELSE Ok(RoutingDecision("Anthropic", FALSE, None))
    ELSE Err("Transform",
             "OpenAI endpoint is not supported in Passthrough mode")

decide_passthrough_mode(format, c) ==
    IF format = "Anthropic"
    THEN IF c.anthropic_base_url = None \/ c.anthropic_api_key = None
         THEN Err("Config", "ANTHROPIC_BASE_URL and ANTHROPIC_API_KEY are required in Passthrough mode")
         ELSE Ok(RoutingDecision("Anthropic", FALSE, None))
    ELSE Err("Transform",
             "OpenAI endpoint is not supported in Passthrough mode")

\* The (Anthropic, OpenAI) cell takes the generic upstream first.
decide_auto_mode_upstream_first(format, m, c) ==
    LET target_backend == infer_backend_from_model(m) IN
    CASE format = "Anthropic" /\ target_backend = "Anthropic" ->
           IF c.anthropic_base_url = None \/ c.anthropic_api_key = None
           THEN Err("Config", "ANTHROPIC_BASE_URL and ANTHROPIC_API_KEY are required for Claude models")
           ELSE Ok(RoutingDecision("Anthropic", FALSE, None))
      [] format = "OpenAI" /\ target_backend = "OpenAI" ->
           IF c.openai_base_url = None \/ c.openai_api_key = None
           THEN Err("Config", "OPENAI_BASE_URL and OPENAI_API_KEY are required for OpenAI models")
           ELSE Ok(RoutingDecision("OpenAI", FALSE, None))
      [] format = "Anthropic" /\ target_backend = "OpenAI" ->
           IF IsSome(c.base_url)
           THEN Ok(RoutingDecision("Upstream", TRUE,
                                   Some("AnthropicToOpenAI")))
           ELSE IF IsSome(c.openai_base_url) /\ IsSome(c.openai_api_key)
           THEN Ok(RoutingDecision("OpenAI", TRUE, Some("AnthropicToOpenAI")))
           ELSE Err("Config", "No OpenAI-compatible backend configured")
      [] format = "OpenAI" /\ target_backend = "Anthropic" ->
           IF c.anthropic_base_url = None \/ c.anthropic_api_key = None
           THEN Err("Config", "ANTHROPIC_BASE_URL and ANTHROPIC_API_KEY are required for Claude models")
           ELSE Ok(RoutingDecision("Anthropic", TRUE,
                                   Some("OpenAIToAnthropic")))
      [] OTHER -> Err("Internal", "Invalid routing combination")

decide_auto_mode(format, m, c) ==
    LET target_backend == infer_backend_from_model(m) IN
    CASE format = "Anthropic" /\ target_backend = "Anthropic" ->
           IF c.anthropic_base_url = None \/ c.anthropic_api_key = None
           THEN Err("Config", "ANTHROPIC_BASE_URL and ANTHROPIC_API_KEY are required for Claude models")
           ELSE Ok(RoutingDecision("Anthropic", FALSE, None))
      [] format = "OpenAI" /\ target_backend = "OpenAI" ->
           IF c.openai_base_url = None \/ c.openai_api_key = None
           THEN Err("Config", "OPENAI_BASE_URL and OPENAI_API_KEY are required for OpenAI models")
           ELSE Ok(RoutingDecision("OpenAI", FALSE, None))
      [] format = "Anthropic" /\ target_backend = "OpenAI" ->
           IF IsSome(c.openai_base_url) /\ IsSome(c.openai_api_key)
           THEN Ok(RoutingDecision("OpenAI", TRUE, Some("AnthropicToOpenAI")))
           ELSE IF IsSome(c.base_url)
           THEN Ok(RoutingDecision("Upstream", TRUE,
                                   Some("AnthropicToOpenAI")))
           ELSE Err("Config", "No OpenAI-compatible backend configured")
      [] format = "OpenAI" /\ target_backend = "Anthropic" ->
           IF c.anthropic_base_url = None \/ c.anthropic_api_key = None
           THEN Err("Config", "ANTHROPIC_BASE_URL and ANTHROPIC_API_KEY are required for Claude models")
           ELSE Ok(RoutingDecision("Anthropic", TRUE,
                                   Some("OpenAIToAnthropic")))
      [] OTHER -> Err("Internal", "Invalid routing combination")

\* Transform mode accepts an Anthropic request whatever the configuration.
decide_unchecked(format, m, c) ==
    CASE c.routing_mode = "Transform" ->
           IF format = "Anthropic"
           THEN Ok(RoutingDecision("Upstream", TRUE,
                                   Some("AnthropicToOpenAI")))
           ELSE decide_transform_mode(format, c)
      [] c.routing_mode = "Passthrough" -> decide_passthrough_mode(format, c)
      [] c.routing_mode \in {"Auto", "Gateway"} -> decide_auto_mode(format, m, c)

decide(format, m, c) ==
    CASE c.routing_mode = "Transform" -> decide_transform_mode(format, c)
      [] c.routing_mode = "Passthrough" -> decide_passthrough_mode(format, c)
      [] c.routing_mode \in {"Auto", "Gateway"} -> decide_auto_mode(format, m, c)

----------------------------------------------------------------------------
(* Backends (backends/) and handlers (handlers/) *)

\* What a backend function hands to client.post(): the URL and the key put
\* in the request's headers.
UpstreamRequest(url, api_key) == [url |-> url, api_key |-> api_key]

\* backends::anthropic::forward_raw_request, handle_transformed_streaming
\* and handle_transformed_non_streaming open alike.
anthropic_backend(c) ==
    LET url == anthropic_messages_url(c) IN
    IF c.anthropic_api_key = None
    THEN Err("Config", "ANTHROPIC_API_KEY not configured")
    ELSE Ok(UpstreamRequest(url, c.anthropic_api_key))

\* backends::openai::forward_request
openai_backend(c) ==
    LET url == openai_chat_completions_url(c) IN
    IF c.openai_api_key = None
    THEN Err("Config", "OPENAI_API_KEY not configured")
    ELSE Ok(UpstreamRequest(url, c.openai_api_key))

get_backend_config(c, backend) ==
    CASE backend = "OpenAI" ->
           Ok(UpstreamRequest(openai_chat_completions_url(c), c.openai_api_key))
      [] backend = "Upstream" ->
           Ok(UpstreamRequest(chat_completions_url(c), c.api_key))
      [] OTHER -> Err("Internal", "Invalid backend for A->O")

\* backends::upstream::handle_streaming and handle_non_streaming open alike.
upstream_backend(c, backend) == get_backend_config(c, backend)

----------------------------------------------------------------------------
(* Requests the router sees *)

\* A base URL is absent, set to the empty string, or set with a trailing
\* slash; a key is absent or set.
BaseUrls == {None, Some(<< >>), Some(<<"https://api.example.com", "/">>)}
ApiKeys == {None, Some("sk-key")}
RoutingModes == {"Transform", "Passthrough", "Auto", "Gateway"}
RequestFormats == {"Anthropic", "OpenAI"}

\* The router reads neither model override.
Configs ==
    {Config(rm, au, ak, ou, ok, bu, k, None, None) :
        rm \in RoutingModes, au \in BaseUrls, ak \in ApiKeys,
        ou \in BaseUrls, ok \in ApiKeys, bu \in BaseUrls, k \in ApiKeys}

\* Pieces of a model string, and the model strings of one or two pieces.
ModelPieces ==
    {"claude", "CLAUDE", "anthropic/", "Anthropic-", "OpenAI/", "gpt", "-3"}
MaxModelPieces == 2
Models ==
    UNION {[1..n -> ModelPieces] : n \in 1..MaxModelPieces}

----------------------------------------------------------------------------
(* JSON values and text (serde_json) *)

(* A text String of a request or response is the sequence of its pieces;   *)
(* the empty String is << >>.                                              *)
is_empty(s) == s = << >>

\* [a, b, c].join(sep)
RECURSIVE join(_, _)
join(strings, sep) ==
    IF strings = << >> THEN << >>
    ELSE IF Len(strings) = 1 THEN strings[1]
    ELSE strings[1] \o <<sep>> \o join(Tail(strings), sep)

\* A serde_json::Value: an object is the sequence of its members.
JsonObject(members) == [json |-> "object", members |-> members]
JsonNull == [json |-> "null", members |-> << >>]
EmptyObject == JsonObject(<< >>)
QueryObject == JsonObject(<<"\"query\":\"rust\"">>)
JsonValues == {EmptyObject, QueryObject}

\* serde_json::to_string of a Value
to_string(v) ==
    IF v.json = "null" THEN <<"null">>
    ELSE <<"{">> \o join([i \in 1..Len(v.members) |-> <<v.members[i]>>], ",")
               \o <<"}">>

\* serde_json::from_str::<Value>: the value the text is the JSON of, if any.
from_str(s) ==
    IF \E v \in JsonValues \cup {JsonNull} : to_string(v) = s
    THEN Ok(CHOOSE v \in JsonValues \cup {JsonNull} : to_string(v) = s)
    ELSE Err("Serialization", "expected value")

\* Argument texts a tool call carries: valid JSON, truncated JSON, nothing.
ArgumentTexts ==
    {to_string(QueryObject), to_string(EmptyObject), <<"{", "\"query\":">>,
     << >>}

----------------------------------------------------------------------------
(* Response transformers (transform/response/) *)

\* anthropic::ResponseContent
ResponseText(text) == [type |-> "text", text |-> text]
ResponseToolUse(id, name, input) ==
    [type |-> "tool_use", id |-> id, name |-> name, input |-> input]
ResponseThinking(thinking) == [type |-> "thinking", thinking |-> thinking]

AnthropicUsage(input_tokens, output_tokens) ==
    [input_tokens |-> input_tokens, output_tokens |-> output_tokens]
AnthropicResponse(id, content, model, stop_reason, usage) ==
    [id |-> id, type |-> "message", role |-> "assistant",
     content |-> content, model |-> model, stop_reason |-> stop_reason,
     stop_sequence |-> None, usage |-> usage]

\* openai::ToolCall, FunctionCall, ChoiceMessage, Choice, Usage
FunctionCall(name, arguments) == [name |-> name, arguments |-> arguments]
ToolCall(id, function) ==
    [id |-> id, type |-> "function", function |-> function]
ChoiceMessage(content, tool_calls) ==
    [role |-> "assistant", content |-> content, tool_calls |-> tool_calls]
ResponseChoice(message, finish_reason) ==
    [index |-> 0, message |-> message, finish_reason |-> finish_reason]
OpenAIUsage(prompt_tokens, completion_tokens) ==
    [prompt_tokens |-> prompt_tokens,
     completion_tokens |-> completion_tokens,
     total_tokens |-> prompt_tokens + completion_tokens]
\* created, the time of the call, is left out.
OpenAIResponse(id, model, choices, usage) ==
    [id |-> id, object |-> "chat.completion", model |-> model,
     choices |-> choices, usage |-> usage, system_fingerprint |-> None]

\* The match of anthropic_to_openai_response on stop_reason.
ResponseFinishReason(r) ==
    CASE r = "end_turn" -> "stop"
      [] r = "tool_use" -> "tool_calls"
      [] r = "max_tokens" -> "length"
      [] OTHER -> "stop"

\* The for loop of anthropic_to_openai_response: acc is (content, tool_calls).
RECURSIVE ResponseBlocks(_, _)
ResponseBlocks(blocks, acc) ==
    IF blocks = << >> THEN acc
    ELSE LET block == Head(blocks) IN
         ResponseBlocks(Tail(blocks),
            CASE block.type = "text" ->
                   [acc EXCEPT !.content = Some(block.text)]
              [] block.type = "tool_use" ->
                   [acc EXCEPT !.tool_calls =
                       Append(@, ToolCall(block.id,
                                   FunctionCall(block.name,
                                                to_string(block.input))))]
              [] block.type = "thinking" -> acc)

anthropic_to_openai_response(resp) ==
    LET acc == ResponseBlocks(resp.content,
                              [content |-> None, tool_calls |-> << >>])
        finish_reason ==
            IF IsSome(resp.stop_reason)
            THEN Some(ResponseFinishReason(resp.stop_reason[1]))
            ELSE None
    IN Ok(OpenAIResponse(resp.id, resp.model,
            <<ResponseChoice(
                ChoiceMessage(acc.content,
                              IF acc.tool_calls = << >> THEN None
                              ELSE Some(acc.tool_calls)),
                finish_reason)>>,
            OpenAIUsage(resp.usage.input_tokens, resp.usage.output_tokens)))

\* The match of openai_to_anthropic on finish_reason, "stop" and "length"
\* taken for each other.
ResponseStopReasonSwapped(r) ==
    CASE r = "tool_calls" -> "tool_use"
      [] r = "stop" -> "max_tokens"
      [] r = "length" -> "end_turn"
      [] OTHER -> "end_turn"

\* The match of openai_to_anthropic on finish_reason.
ResponseStopReason(r) ==
    CASE r = "tool_calls" -> "tool_use"
      [] r = "stop" -> "end_turn"
      [] r = "length" -> "max_tokens"
      [] OTHER -> "end_turn"

\* serde_json::from_str(arguments).unwrap_or_else(|_| json!({}))
ParsedArguments(arguments) ==
    IF from_str(arguments).ok THEN from_str(arguments).value ELSE EmptyObject

openai_to_anthropic(resp) ==
    IF resp.choices = << >>
    THEN Err("Transform", "No choices in response")
    ELSE
    LET choice == resp.choices[1]
        text_content ==
            IF IsSome(choice.message.content)
                 /\ ~is_empty(choice.message.content[1])
            THEN <<ResponseText(choice.message.content[1])>>
            ELSE << >>
        tool_content ==
            IF IsSome(choice.message.tool_calls)
            THEN [i \in 1..Len(choice.message.tool_calls[1]) |->
                    LET tool_call == choice.message.tool_calls[1][i] IN
                    ResponseToolUse(tool_call.id, tool_call.function.name,
                        ParsedArguments(tool_call.function.arguments))]
            ELSE << >>
        stop_reason ==
            IF IsSome(choice.finish_reason)
            THEN Some(ResponseStopReason(choice.finish_reason[1]))
            ELSE None
    IN Ok(AnthropicResponse(resp.id, text_content \o tool_content,
            resp.model, stop_reason,
            AnthropicUsage(resp.usage.prompt_tokens,
                           resp.usage.completion_tokens)))

----------------------------------------------------------------------------
(* Request types (models/anthropic.rs, and the openai types as the         *)
(* transformers build and read them)                                       *)

\* anthropic::MessageContent, ContentBlock, ToolResultContent, Message
AnthropicText(text) == [variant |-> "Text", text |-> text]
AnthropicBlocks(blocks) == [variant |-> "Blocks", blocks |-> blocks]
BlockText(text) == [type |-> "text", text |-> text]
BlockImage(media_type, data) ==
    [type |-> "image", source_type |-> "base64",
     media_type |-> media_type, data |-> data]
BlockToolUse(id, name, input) ==
    [type |-> "tool_use", id |-> id, name |-> name, input |-> input]
BlockToolResult(tool_use_id, content) ==
    [type |-> "tool_result", tool_use_id |-> tool_use_id,
     content |-> content, is_error |-> None]
BlockThinking(thinking) == [type |-> "thinking", thinking |-> thinking]
ToolResultText(text) == [variant |-> "Text", text |-> text]
ToolResultBlocks(blocks) == [variant |-> "Blocks", blocks |-> blocks]
AnthropicMessage(role, content) == [role |-> role, content |-> content]

\* anthropic::SystemPrompt, Tool, AnthropicRequest
SystemSingle(text) == [variant |-> "Single", text |-> text]
SystemMultiple(messages) == [variant |-> "Multiple", messages |-> messages]
AnthropicTool(name, description, input_schema, tool_type) ==
    [name |-> name, description |-> description,
     input_schema |-> input_schema, tool_type |-> tool_type]
AnthropicRequest(model, messages, max_tokens, system, temperature, top_p, top_k, stop_sequences, stream, tools, extra) ==
    [model |-> model, messages |-> messages, max_tokens |-> max_tokens,
     system |-> system, temperature |-> temperature, top_p |-> top_p,
     top_k |-> top_k, stop_sequences |-> stop_sequences, stream |-> stream,
     tools |-> tools, metadata |-> None, extra |-> extra]

\* openai::MessageContent, ContentPart, Message, Tool, OpenAIRequest
OpenAIText(text) == [variant |-> "Text", text |-> text]
OpenAIParts(parts) == [variant |-> "Parts", parts |-> parts]
PartText(text) == [type |-> "text", text |-> text]
PartImageUrl(url) == [type |-> "image_url", url |-> url]
OpenAIMessage(role, content, tool_calls, tool_call_id) ==
    [role |-> role, content |-> content, tool_calls |-> tool_calls,
     tool_call_id |-> tool_call_id, name |-> None]
OpenAITool(name, description, parameters) ==
    [type |-> "function", name |-> name, description |-> description,
     parameters |-> parameters]
OpenAIRequest(model, messages, max_tokens, temperature, top_p, stop, stream, tools, reasoning_effort) ==
    [model |-> model, messages |-> messages, max_tokens |-> max_tokens,
     temperature |-> temperature, top_p |-> top_p, stop |-> stop,
     stream |-> stream, tools |-> tools, tool_choice |-> None,
     reasoning_effort |-> reasoning_effort]

\* The seq without the elements that are None, each Some unwrapped.
RECURSIVE filter_map(_)
filter_map(options) ==
    IF options = << >> THEN << >>
    ELSE Head(options) \o filter_map(Tail(options))

----------------------------------------------------------------------------
(* O->A request transformer (transform/request/openai_to_anthropic.rs) *)

\* str::find of a one-character pattern: the pieces before its first
\* occurrence, counted.
find_piece(s, pat) ==
    LET hits == {i \in 1..Len(s) : s[i] = pat}
    IN IF hits = {} THEN None
       ELSE Some((CHOOSE i \in hits : \A j \in hits : i <= j) - 1)

parse_data_url(url) ==
    IF starts_with(url, "data:")
    THEN LET rest == Tail(url)
             comma_pos == find_piece(rest, ",")
         IN IF IsSome(comma_pos)
            THEN LET meta == SubSeq(rest, 1, comma_pos[1])
                     data == SubSeq(rest, comma_pos[1] + 2, Len(rest))
                     semi_pos == find_piece(meta, ";")
                     media_type ==
                         IF IsSome(semi_pos)
                         THEN SubSeq(meta, 1, semi_pos[1])
                         ELSE meta
                 IN Some([media_type |-> media_type, data |-> data])
            ELSE None
    ELSE None

\* The text of a system or tool message's content.
OpenAIContentText(content) ==
    IF content.variant = "Text" THEN content.text
    ELSE join(filter_map([i \in 1..Len(content.parts) |->
                IF content.parts[i].type = "text"
                THEN Some(content.parts[i].text) ELSE None]), "\n")

convert_openai_message_content(msg) ==
    LET content_blocks ==
            IF IsSome(msg.content)
            THEN LET content == msg.content[1] IN
                 IF content.variant = "Text"
                 THEN IF ~is_empty(content.text)
                      THEN <<BlockText(content.text)>> ELSE << >>
                 ELSE filter_map([i \in 1..Len(content.parts) |->
                        LET part == content.parts[i] IN
                        IF part.type = "text" THEN Some(BlockText(part.text))
                        ELSE LET parsed == parse_data_url(part.url) IN
                             IF IsSome(parsed)
                             THEN Some(BlockImage(parsed[1].media_type,
                                                  parsed[1].data))
                             ELSE None])
            ELSE << >>
        tool_blocks ==
            IF IsSome(msg.tool_calls)
            THEN [i \in 1..Len(msg.tool_calls[1]) |->
                    LET tool_call == msg.tool_calls[1][i] IN
                    BlockToolUse(tool_call.id, tool_call.function.name,
                        ParsedArguments(tool_call.function.arguments))]
            ELSE << >>
        blocks == content_blocks \o tool_blocks
    IN IF Len(blocks) = 1 /\ blocks[1].type = "text"
       THEN AnthropicText(blocks[1].text)
       ELSE IF blocks = << >> THEN AnthropicText(<< >>)
       ELSE AnthropicBlocks(blocks)

\* One pass of the for loop over req.messages.
OARequestMessage(acc, msg) ==
    CASE msg.role = "system" ->
           IF IsSome(msg.content)
           THEN [acc EXCEPT !.system_prompt =
                   Some(SystemSingle(OpenAIContentText(msg.content[1])))]
           ELSE acc
      [] msg.role \in {"user", "assistant"} ->
           [acc EXCEPT !.messages =
               Append(@, AnthropicMessage(msg.role,
                            convert_openai_message_content(msg)))]
      [] msg.role = "tool" ->
           IF IsSome(msg.content) /\ IsSome(msg.tool_call_id)
           THEN [acc EXCEPT !.messages =
                   Append(@, AnthropicMessage("user", AnthropicBlocks(
                       <<BlockToolResult(msg.tool_call_id[1],
                           ToolResultText(
                               OpenAIContentText(msg.content[1])))>>)))]
           ELSE acc
      [] OTHER -> acc

RECURSIVE OARequestMessages(_, _)
OARequestMessages(acc, msgs) ==
    IF msgs = << >> THEN acc
    ELSE OARequestMessages(OARequestMessage(acc, Head(msgs)), Tail(msgs))

openai_to_anthropic_request(req, c) ==
    LET acc == OARequestMessages([messages |-> << >>, system_prompt |-> None],
                                 req.messages)
        tools ==
            IF IsSome(req.tools)
            THEN Some([i \in 1..Len(req.tools[1]) |->
                    AnthropicTool(req.tools[1][i].name,
                                  req.tools[1][i].description,
                                  req.tools[1][i].parameters, None)])
            ELSE None
        model == IF IsSome(c.completion_model) THEN c.completion_model[1]
                 ELSE req.model
    IN Ok(AnthropicRequest(model, acc.messages,
            IF IsSome(req.max_tokens) THEN req.max_tokens[1] ELSE 4096,
            acc.system_prompt, req.temperature, req.top_p, None, req.stop,
            req.stream, tools, JsonNull))

----------------------------------------------------------------------------
(* A->O request transformer (transform/request/anthropic_to_openai.rs) *)

\* utils::EFFORT_LEVELS, and the suffix format!("-{}", effort) as a piece
EFFORT_LEVELS == <<"minimal", "low", "medium", "high">>
EffortSuffix(effort) ==
    CASE effort = "minimal" -> "-minimal"
      [] effort = "low" -> "-low"
      [] effort = "medium" -> "-medium"
      [] effort = "high" -> "-high"
ends_with(s, pat) == Len(s) >= 1 /\ s[Len(s)] = pat

parse_model_with_effort(m) ==
    LET hits == {i \in 1..Len(EFFORT_LEVELS) :
                    ends_with(m, EffortSuffix(EFFORT_LEVELS[i]))}
    IN IF hits # {}
       THEN LET effort == EFFORT_LEVELS[CHOOSE i \in hits :
                                            \A j \in hits : i <= j]
            IN [model |-> SubSeq(m, 1, Len(m) - 1), effort |-> Some(effort)]
       ELSE [model |-> m, effort |-> None]

\* A JSON schema: an object with the keywords the code looks at.
Schema(format, properties, items) ==
    [json |-> "schema", format |-> format, properties |-> properties,
     items |-> items]

RECURSIVE clean_schema(_)
clean_schema(schema) ==
    IF schema.json = "schema"
    THEN [schema EXCEPT
            !.format = IF @ = Some("uri") THEN None ELSE @,
            !.properties =
                IF IsSome(@)
                THEN Some([i \in 1..Len(@[1]) |-> clean_schema(@[1][i])])
                ELSE @,
            !.items = IF IsSome(@) THEN Some(clean_schema(@[1])) ELSE @]
    ELSE schema

\* ToolResultContent::to_string_content
to_string_content(content) ==
    IF content.variant = "Text" THEN content.text
    ELSE join([i \in 1..Len(content.blocks) |->
                 IF content.blocks[i].type = "text"
                 THEN content.blocks[i].text
                 ELSE <<"[image]">>], "\n")

\* A Thinking block becomes a text part.
RECURSIVE AORequestBlocksThinkingAsText(_, _)
AORequestBlocksThinkingAsText(blocks, acc) ==
    IF blocks = << >> THEN acc
    ELSE LET block == Head(blocks) IN
         AORequestBlocksThinkingAsText(Tail(blocks),
            CASE block.type = "text" ->
                   [acc EXCEPT !.current_content_parts =
                       Append(@, PartText(block.text))]
              [] block.type = "image" ->
                   [acc EXCEPT !.current_content_parts =
                       Append(@, PartImageUrl(
                           <<"data:">> \o block.media_type
                             \o <<";", "base64", ",">> \o block.data))]
              [] block.type = "tool_use" ->
                   [acc EXCEPT !.tool_calls =
                       Append(@, ToolCall(block.id,
                                   FunctionCall(block.name,
                                                to_string(block.input))))]
              [] block.type = "tool_result" ->
                   [acc EXCEPT !.result =
                       Append(@, OpenAIMessage("tool",
                           Some(OpenAIText(to_string_content(block.content))),
                           None, Some(block.tool_use_id)))]
              [] block.type = "thinking" ->
                   [acc EXCEPT !.current_content_parts =
                       Append(@, PartText(block.thinking))])

\* The for loop of convert_message over the blocks: acc is
\* (result, current_content_parts, tool_calls).
RECURSIVE AORequestBlocks(_, _)
AORequestBlocks(blocks, acc) ==
    IF blocks = << >> THEN acc
    ELSE LET block == Head(blocks) IN
         AORequestBlocks(Tail(blocks),
            CASE block.type = "text" ->
                   [acc EXCEPT !.current_content_parts =
                       Append(@, PartText(block.text))]
              [] block.type = "image" ->
                   [acc EXCEPT !.current_content_parts =
                       Append(@, PartImageUrl(
                           <<"data:">> \o block.media_type
                             \o <<";", "base64", ",">> \o block.data))]
              [] block.type = "tool_use" ->
                   [acc EXCEPT !.tool_calls =
                       Append(@, ToolCall(block.id,
                                   FunctionCall(block.name,
                                                to_string(block.input))))]
              [] block.type = "tool_result" ->
                   [acc EXCEPT !.result =
                       Append(@, OpenAIMessage("tool",
                           Some(OpenAIText(to_string_content(block.content))),
                           None, Some(block.tool_use_id)))]
              [] block.type = "thinking" -> acc)

\* The envelope is pushed whatever was accumulated.
convert_message_envelope_always(msg) ==
    IF msg.content.variant = "Text"
    THEN <<OpenAIMessage(msg.role, Some(OpenAIText(msg.content.text)),
                         None, None)>>
    ELSE LET acc == AORequestBlocks(msg.content.blocks,
                        [result |-> << >>, current_content_parts |-> << >>,
                         tool_calls |-> << >>])
             parts == acc.current_content_parts
             content ==
                 IF parts = << >> THEN None
                 ELSE IF Len(parts) = 1 /\ parts[1].type = "text"
                 THEN Some(OpenAIText(parts[1].text))
                 ELSE Some(OpenAIParts(parts))
         IN Append(acc.result,
                   OpenAIMessage(msg.role, content,
                       IF acc.tool_calls = << >> THEN None
                       ELSE Some(acc.tool_calls),
                       None))

\* serde_json::to_string of a Value does not fail: the Err of line 153 is
\* never returned.
convert_message(msg) ==
    IF msg.content.variant = "Text"
    THEN <<OpenAIMessage(msg.role, Some(OpenAIText(msg.content.text)),
                         None, None)>>
    ELSE LET acc == AORequestBlocks(msg.content.blocks,
                        [result |-> << >>, current_content_parts |-> << >>,
                         tool_calls |-> << >>])
             parts == acc.current_content_parts
             content ==
                 IF parts = << >> THEN None
                 ELSE IF Len(parts) = 1 /\ parts[1].type = "text"
                 THEN Some(OpenAIText(parts[1].text))
                 ELSE Some(OpenAIParts(parts))
         IN IF parts # << >> \/ acc.tool_calls # << >>
            THEN Append(acc.result,
                        OpenAIMessage(msg.role, content,
                            IF acc.tool_calls = << >> THEN None
                            ELSE Some(acc.tool_calls),
                            None))
            ELSE acc.result

RECURSIVE ConvertMessages(_)
ConvertMessages(msgs) ==
    IF msgs = << >> THEN << >>
    ELSE convert_message(Head(msgs)) \o ConvertMessages(Tail(msgs))

anthropic_to_openai(req, c) ==
    LET has_thinking == req.extra.thinking = Some("enabled")
        raw_model ==
            IF has_thinking
            THEN IF IsSome(c.reasoning_model) THEN c.reasoning_model[1]
                 ELSE req.model
            ELSE IF IsSome(c.completion_model) THEN c.completion_model[1]
                 ELSE req.model
        parsed == parse_model_with_effort(raw_model)
        system_messages ==
            IF IsSome(req.system)
            THEN IF req.system[1].variant = "Single"
                 THEN <<OpenAIMessage("system",
                            Some(OpenAIText(req.system[1].text)), None, None)>>
                 ELSE [i \in 1..Len(req.system[1].messages) |->
                         OpenAIMessage("system",
                            Some(OpenAIText(req.system[1].messages[i].text)),
                            None, None)]
            ELSE << >>
        NotBatchTool(t) == t.tool_type # Some("BatchTool")
        filtered == IF IsSome(req.tools)
                    THEN SelectSeq(req.tools[1], NotBatchTool) ELSE << >>
        tools ==
            IF filtered = << >> THEN None
            ELSE Some([i \in 1..Len(filtered) |->
                    OpenAITool(filtered[i].name, filtered[i].description,
                               clean_schema(filtered[i].input_schema))])
    IN Ok(OpenAIRequest(parsed.model,
            system_messages \o ConvertMessages(req.messages),
            Some(IF req.max_tokens >= 16 THEN req.max_tokens ELSE 16),
            req.temperature, req.top_p, req.stop_sequences, req.stream,
            tools, parsed.effort))

----------------------------------------------------------------------------
(* Values the transformers are given *)

\* Content blocks in one message or response, messages in one request.
MaxBlocks == 2
MaxMessages == 2

SeqsUpTo(S, n) == UNION {[1..k -> S] : k \in 0..n}

\* Responses of an A-format upstream.
ResponseBlockValues ==
    {ResponseText(<<"Hello">>), ResponseText(<<"world">>),
     ResponseToolUse("toolu_1", "search", QueryObject),
     ResponseThinking(<<"hmm">>)}
StopReasons ==
    {None, Some("end_turn"), Some("tool_use"), Some("max_tokens"),
     Some("stop_sequence")}
AnthropicResponses ==
    {AnthropicResponse("msg_1", content, <<"claude-3">>, stop_reason,
                       AnthropicUsage(10, 5)) :
        content \in SeqsUpTo(ResponseBlockValues, MaxBlocks),
        stop_reason \in StopReasons}

\* Responses of an O-format upstream.
FinishReasons ==
    {None, Some("stop"), Some("tool_calls"), Some("length"),
     Some("content_filter")}
ResponseChoices ==
    {ResponseChoice(ChoiceMessage(content, tool_calls), finish_reason) :
        content \in {None, Some(<< >>), Some(<<"Hi">>)},
        tool_calls \in {None, Some(<< >>)}
            \cup {Some(<<ToolCall("call_1", FunctionCall("search", a))>>) :
                    a \in ArgumentTexts},
        finish_reason \in FinishReasons}
OpenAIResponses ==
    {OpenAIResponse("chatcmpl-1", <<"gpt-4">>, choices, OpenAIUsage(10, 5)) :
        choices \in {<< >>} \cup {<<ch>> : ch \in ResponseChoices}
            \cup {<<ch, ResponseChoice(ChoiceMessage(Some(<<"second">>), None),
                                       Some("length"))>> :
                    ch \in ResponseChoices}}

\* Messages of an O-format request.
DataUrl == <<"data:", "image/png", ";", "base64", ",", "AAAA">>
SearchCall(arguments) ==
    ToolCall("call_1", FunctionCall("search", arguments))
OpenAIMessages ==
    {OpenAIMessage("system", Some(OpenAIText(<<"You are helpful">>)),
                   None, None),
     OpenAIMessage("system", Some(OpenAIText(<<"Be brief">>)), None, None),
     OpenAIMessage("system",
        Some(OpenAIParts(<<PartText(<<"Rule one">>), PartImageUrl(DataUrl),
                           PartText(<<"Rule two">>)>>)), None, None),
     OpenAIMessage("system", None, None, None),
     OpenAIMessage("user", Some(OpenAIText(<<"Hello">>)), None, None),
     OpenAIMessage("user",
        Some(OpenAIParts(<<PartText(<<"Look">>), PartImageUrl(DataUrl),
            PartImageUrl(<<"https://", "example.com/cat.png">>)>>)),
        None, None),
     OpenAIMessage("assistant", None,
        Some(<<SearchCall(to_string(QueryObject))>>), None),
     OpenAIMessage("assistant", Some(OpenAIText(<<"Searching">>)),
        Some(<<SearchCall(<<"{", "\"query\":">>)>>), None),
     OpenAIMessage("tool", Some(OpenAIText(<<"42">>)), None, Some("call_1")),
     OpenAIMessage("tool", Some(OpenAIText(<<"42">>)), None, None),
     OpenAIMessage("tool", None, None, Some("call_1")),
     OpenAIMessage("developer", Some(OpenAIText(<<"Dev note">>)), None, None)}

UriSchema ==
    Schema(None, Some(<<Schema(Some("uri"), None, None),
                        Schema(Some("date"), None,
                               Some(Schema(Some("uri"), None, None)))>>),
           None)

OpenAIRequests ==
    {OpenAIRequest(<<"gpt-4">>, messages, max_tokens, None, None, None,
                   stream, tools, None) :
        messages \in SeqsUpTo(OpenAIMessages, MaxMessages),
        max_tokens \in {None, Some(100)},
        stream \in {None, Some(TRUE)},
        tools \in {None, Some(<<OpenAITool("search", Some(<<"Search">>),
                                           UriSchema)>>)}}

\* Messages of an A-format request.
BlockValues ==
    {BlockText(<<"Hello">>),
     BlockImage(<<"image/png">>, <<"AAAA">>),
     BlockToolUse("toolu_1", "search", QueryObject),
     BlockToolResult("toolu_1", ToolResultText(<<"42">>)),
     BlockToolResult("toolu_2",
        ToolResultBlocks(<<BlockText(<<"ok">>),
                           BlockImage(<<"image/png">>, <<"AAAA">>),
                           BlockText(<<"done">>)>>)),
     BlockThinking(<<"hmm">>)}
Roles == {"user", "assistant", "system"}
AnthropicMessages ==
    {AnthropicMessage(role, content) :
        role \in Roles,
        content \in {AnthropicText(<<"Hello">>)}
            \cup {AnthropicBlocks(b) : b \in SeqsUpTo(BlockValues, MaxBlocks)}}
PlainMessages ==
    {AnthropicMessage(role, AnthropicText(<<"Hi">>)) : role \in Roles}

SystemPrompts ==
    {None, Some(SystemSingle(<<"You are helpful">>)),
     Some(SystemMultiple(<<[type |-> "text", text |-> <<"Rule one">>,
                            cache_control |-> Some("ephemeral")],
                           [type |-> "text", text |-> <<"Rule two">>,
                            cache_control |-> None]>>))}
ToolLists ==
    {None,
     Some(<<AnthropicTool("batch", None, UriSchema, Some("BatchTool"))>>),
     Some(<<AnthropicTool("search", Some(<<"Search">>), UriSchema, None),
            AnthropicTool("batch", None, UriSchema, Some("BatchTool"))>>)}
Extras == {[thinking |-> t] : t \in {None, Some("enabled"), Some("disabled")}}

\* Either the messages vary or what surrounds them does.
AnthropicRequests ==
    {AnthropicRequest(<<"claude-3">>, messages, 1024, None, None, None,
                      None, None, None, None, [thinking |-> None]) :
        messages \in {<<m>> : m \in AnthropicMessages}
            \cup {<<p, m>> : p \in PlainMessages, m \in AnthropicMessages}}
    \cup
    {AnthropicRequest(model, <<AnthropicMessage("user",
                                    AnthropicText(<<"Hello">>))>>,
                      max_tokens, system, Some("0.5"), None, Some(40),
                      Some(<<"END">>), stream, tools, extra) :
        model \in {<<"claude-3">>, <<"claude-3", "-low">>,
                   <<"claude-3", "-turbo">>},
        max_tokens \in {1, 1024}, system \in SystemPrompts,
        stream \in {None, Some(TRUE)}, tools \in ToolLists,
        extra \in Extras}

\* The model overrides of the configuration.
TransformConfigs ==
    {Config("Auto", None, None, None, None, None, None, rm, cm) :
        rm \in {None, Some(<<"o3", "-high">>)},
        cm \in {None, Some(<<"gpt-4o">>)}}

----------------------------------------------------------------------------
(* One call of a transformer *)

XfIdle == xfIn = None /\ xfOut = None /\ xfPc = "idle"

\* No concurrent requests.
TasksIdle == tasks = << >>

AToORequestInputs ==
    {[fn |-> "anthropic_to_openai", arg |-> req, config |-> c] :
        req \in AnthropicRequests, c \in TransformConfigs}
AToOResponseInputs ==
    {[fn |-> "anthropic_to_openai_response", arg |-> resp, config |-> None] :
        resp \in AnthropicResponses}
OToARequestInputs ==
    {[fn |-> "openai_to_anthropic_request", arg |-> req, config |-> c] :
        req \in OpenAIRequests,
        c \in {tc \in TransformConfigs : tc.reasoning_model = None}}
OToAResponseInputs ==
    {[fn |-> "openai_to_anthropic", arg |-> resp, config |-> None] :
        resp \in OpenAIResponses}

XfStart ==
    /\ xfIn \in AToORequestInputs \cup AToOResponseInputs
                  \cup OToARequestInputs \cup OToAResponseInputs
    /\ xfOut = None /\ xfPc = "ready"

\* Only the transformers that produce O-format output.
XfStartAToO ==
    /\ xfIn \in AToORequestInputs \cup AToOResponseInputs
    /\ xfOut = None /\ xfPc = "ready"

CallAnthropicToOpenAI ==
    /\ xfPc = "ready" /\ xfIn.fn = "anthropic_to_openai"
    /\ xfOut' = Some(anthropic_to_openai(xfIn.arg, xfIn.config))
    /\ xfPc' = "done"
    /\ UNCHANGED <<xfIn, oaVars, aoVars, byteVars, routerVars,
                   taskVars>>

CallAnthropicToOpenAIResponse ==
    /\ xfPc = "ready" /\ xfIn.fn = "anthropic_to_openai_response"
    /\ xfOut' = Some(anthropic_to_openai_response(xfIn.arg))
    /\ xfPc' = "done"
    /\ UNCHANGED <<xfIn, oaVars, aoVars, byteVars, routerVars,
                   taskVars>>

CallOpenAIToAnthropicRequest ==
    /\ xfPc = "ready" /\ xfIn.fn = "openai_to_anthropic_request"
    /\ xfOut' = Some(openai_to_anthropic_request(xfIn.arg, xfIn.config))
    /\ xfPc' = "done"
    /\ UNCHANGED <<xfIn, oaVars, aoVars, byteVars, routerVars,
                   taskVars>>

CallOpenAIToAnthropic ==
    /\ xfPc = "ready" /\ xfIn.fn = "openai_to_anthropic"
    /\ xfOut' = Some(openai_to_anthropic(xfIn.arg))
    /\ xfPc' = "done"
    /\ UNCHANGED <<xfIn, oaVars, aoVars, byteVars, routerVars,
                   taskVars>>

----------------------------------------------------------------------------
(* HTTP bodies (serde_json, reqwest) and errors (error.rs) *)

(* The bytes of a JSON body are the members of its object in the order     *)
(* written, whether white space stands between its tokens, and whether the *)
(* text is complete: a truncated text is not JSON.                         *)
Member(key, value) == [key |-> key, value |-> value]
JsonBytes(members, spaced, complete) ==
    [members |-> members, spaced |-> spaced, complete |-> complete]

\* Member values: a string, a bool, a number, an array, and a nested typed
\* value carried as it is.
JsonString(text) == [json |-> "string", text |-> text]
JsonBool(b) == [json |-> "bool", bool |-> b]
JsonNumber(n) == [json |-> "number", number |-> n]
JsonArray(items) == [json |-> "array", items |-> items]
Encoded(x) == [json |-> "value", x |-> x]

\* serde_json::from_slice::<Value>: the Value has the members and neither
\* the white space nor the bytes.
from_slice(bytes) ==
    IF bytes.complete THEN Ok(JsonObject(bytes.members))
    ELSE Err("Serialization", "EOF while parsing")

\* Value::get, Value::as_str, Value::as_bool
get(v, key) ==
    LET hits == {i \in 1..Len(v.members) : v.members[i].key = key}
    IN IF hits = {} THEN None
       ELSE Some(v.members[CHOOSE i \in hits : \A j \in hits : i <= j].value)
as_str(o) == IF IsSome(o) /\ o[1].json = "string" THEN Some(o[1].text) ELSE None
as_bool(o) == IF IsSome(o) /\ o[1].json = "bool" THEN Some(o[1].bool) ELSE None
as_number(o) ==
    IF IsSome(o) /\ o[1].json = "number" THEN Some(o[1].number) ELSE None
as_array(o) ==
    IF IsSome(o) /\ o[1].json = "array" THEN Some(o[1].items) ELSE None
unwrap_or(o, default) == IF IsSome(o) THEN o[1] ELSE default

\* A member that is absent, or present with the type the field has.
Fits(v, key, type) == get(v, key) = None \/ get(v, key)[1].json = type

\* serde_json::from_value::<AnthropicRequest>: model, messages and max_tokens
\* are required, and the members that are no field go to extra.
from_value_anthropic(v) ==
    IF /\ IsSome(as_str(get(v, "model")))
       /\ IsSome(as_array(get(v, "messages")))
       /\ IsSome(as_number(get(v, "max_tokens")))
       /\ Fits(v, "stream", "bool")
    THEN Ok(AnthropicRequest(as_str(get(v, "model"))[1],
                as_array(get(v, "messages"))[1],
                as_number(get(v, "max_tokens"))[1],
                None, None, None, None, None, as_bool(get(v, "stream")),
                None, [thinking |-> as_str(get(v, "thinking"))]))
    ELSE Err("Serialization", "missing field")

\* serde_json::from_value::<OpenAIRequest>: model and messages are required,
\* and the members that are no field are ignored.
from_value_openai(v) ==
    IF /\ IsSome(as_str(get(v, "model")))
       /\ IsSome(as_array(get(v, "messages")))
       /\ Fits(v, "max_tokens", "number")
       /\ Fits(v, "stream", "bool")
    THEN Ok(OpenAIRequest(as_str(get(v, "model"))[1],
                as_array(get(v, "messages"))[1],
                as_number(get(v, "max_tokens")),
                None, None, None, as_bool(get(v, "stream")), None, None))
    ELSE Err("Serialization", "missing field")

\* A field that is skipped when it is None.
Optional(key, o) == IF IsSome(o) THEN <<Member(key, Encoded(o[1]))>> ELSE << >>

\* RequestBuilder::json(&req), which is serde_json::to_vec(&req): the fields
\* of the struct in its order, without white space.
to_vec_openai(req) ==
    JsonBytes(<<Member("model", JsonString(req.model)),
                Member("messages", JsonArray(req.messages))>>
              \o (IF IsSome(req.max_tokens)
                  THEN <<Member("max_tokens", JsonNumber(req.max_tokens[1]))>>
                  ELSE << >>)
              \o Optional("temperature", req.temperature)
              \o Optional("top_p", req.top_p)
              \o Optional("stop", req.stop)
              \o (IF IsSome(req.stream)
                  THEN <<Member("stream", JsonBool(req.stream[1]))>>
                  ELSE << >>)
              \o Optional("tools", req.tools)
              \o Optional("tool_choice", req.tool_choice)
              \o Optional("reasoning_effort", req.reasoning_effort),
              FALSE, TRUE)

to_vec_anthropic(req) ==
    JsonBytes(<<Member("model", JsonString(req.model)),
                Member("messages", JsonArray(req.messages)),
                Member("max_tokens", JsonNumber(req.max_tokens))>>
              \o Optional("system", req.system)
              \o Optional("temperature", req.temperature)
              \o Optional("top_p", req.top_p)
              \o Optional("top_k", req.top_k)
              \o Optional("stop_sequences", req.stop_sequences)
              \o (IF IsSome(req.stream)
                  THEN <<Member("stream", JsonBool(req.stream[1]))>>
                  ELSE << >>)
              \o Optional("tools", req.tools)
              \o Optional("metadata", req.metadata),
              FALSE, TRUE)

(* What the upstream answers: nothing when the connection fails, otherwise *)
(* a status and a body, which is the text of a value, complete or          *)
(* truncated.                                                              *)
Content(value, complete) == [value |-> value, complete |-> complete]
Reply(status, content) ==
    [delivered |-> TRUE, status |-> status, content |-> content]
ConnectionFailed ==
    [delivered |-> FALSE, status |-> 0, content |-> Content(JsonNull, FALSE)]
is_success(status) == status \in 200..299

\* reqwest::Response::json::<OpenAIResponse>, and the same for an
\* AnthropicResponse: a body that is not the JSON of the type is a
\* reqwest::Error, which ? turns into ProxyError::Http.
json_openai(content) ==
    IF content.complete /\ "choices" \in DOMAIN content.value
    THEN Ok(content.value)
    ELSE Err("Http", "error decoding response body")
json_anthropic(content) ==
    IF content.complete /\ "stop_reason" \in DOMAIN content.value
    THEN Ok(content.value)
    ELSE Err("Http", "error decoding response body")

\* The response of the proxy to its client.
HttpResponse(status, content_type, content) ==
    [status |-> status, content_type |-> content_type, content |-> content]

\* The body of a translated stream: create_stream over the upstream's body.
Translated(direction, content) ==
    [create_stream |-> direction, upstream |-> content]

\* ProxyError::into_response
into_response(e) ==
    LET status == CASE e.kind = "Config" -> 500
                    [] e.kind = "Transform" -> 400
                    [] e.kind = "Upstream" -> 502
                    [] e.kind = "Serialization" -> 400
                    [] e.kind = "Http" -> 502
                    [] e.kind = "Internal" -> 500
                    [] e.kind = "UnsupportedOperation" -> 400
                    [] e.kind = "Routing" -> 500
        error_message == CASE e.kind = "Serialization" ->
                                <<"JSON error: ", e.message>>
                           [] e.kind = "Http" -> <<"HTTP error: ", e.message>>
                           [] OTHER -> <<e.message>>
    IN HttpResponse(status, "application/json",
           Content([error |-> [type |-> "proxy_error",
                               message |-> error_message]], TRUE))

----------------------------------------------------------------------------
(* Backend calls (backends/) and handlers (handlers/) *)

\* What a backend function or a handler did: the upstream request it built
\* or the error it stopped with, the body it sent if it sent one, and the
\* response it returned.
Call(request, body_sent, http_response) ==
    [request |-> request, sent |-> body_sent, response |-> http_response]
Failed(e) == Call(e, None, into_response(e))

\* req_builder.send().await? and the check of the status that follows it in
\* every backend function.
send(r, upstream) ==
    IF ~r.delivered THEN Err("Http", "error sending request")
    ELSE IF ~is_success(r.status) THEN Err("Upstream", upstream)
    ELSE Ok(r)

\* What a backend function returns once its request is built and sent.
Exchange(request, bytes, upstream, r, http_response) ==
    IF ~request.ok THEN Failed(request)
    ELSE Call(request, Some(bytes),
              IF ~send(r, upstream).ok THEN into_response(send(r, upstream))
              ELSE http_response)

\* The responses that pass the upstream's body on as it came.
Passthrough(is_streaming, r) ==
    IF is_streaming THEN HttpResponse(200, "text/event-stream", r.content)
    ELSE HttpResponse(200, "application/json", r.content)

\* backends::anthropic::forward_raw_request
forward_raw_request(c, bytes, is_streaming, r) ==
    Exchange(anthropic_backend(c), bytes, "Anthropic API returned", r,
             Passthrough(is_streaming, r))

\* backends::openai::forward_request
forward_request(c, req, is_streaming, r) ==
    Exchange(openai_backend(c), to_vec_openai(req), "OpenAI API returned", r,
             Passthrough(is_streaming, r))

\* backends::upstream::handle_non_streaming
handle_non_streaming(c, openai_req, backend, r) ==
    Exchange(upstream_backend(c, backend), to_vec_openai(openai_req),
             "Upstream returned", r,
             LET openai_resp == json_openai(r.content) IN
             IF ~openai_resp.ok THEN into_response(openai_resp)
             ELSE LET anthropic_resp == openai_to_anthropic(openai_resp.value)
                  IN IF ~anthropic_resp.ok THEN into_response(anthropic_resp)
                     ELSE HttpResponse(200, "application/json",
                              Content(anthropic_resp.value, TRUE)))

\* backends::upstream::handle_streaming
handle_streaming(c, openai_req, backend, r) ==
    Exchange(upstream_backend(c, backend), to_vec_openai(openai_req),
             "Upstream returned", r,
             HttpResponse(200, "text/event-stream",
                 Translated("openai_to_anthropic", r.content)))

\* backends::anthropic::handle_transformed_non_streaming
handle_transformed_non_streaming(c, anthropic_req, r) ==
    Exchange(anthropic_backend(c), to_vec_anthropic(anthropic_req),
             "Anthropic returned", r,
             LET anthropic_resp == json_anthropic(r.content) IN
             IF ~anthropic_resp.ok THEN into_response(anthropic_resp)
             ELSE LET openai_resp ==
                          anthropic_to_openai_response(anthropic_resp.value)
                  IN IF ~openai_resp.ok THEN into_response(openai_resp)
                     ELSE HttpResponse(200, "application/json",
                              Content(openai_resp.value, TRUE)))

\* backends::anthropic::handle_transformed_streaming
handle_transformed_streaming(c, anthropic_req, r) ==
    Exchange(anthropic_backend(c), to_vec_anthropic(anthropic_req),
             "Anthropic returned", r,
             HttpResponse(200, "text/event-stream",
                 Translated("anthropic_to_openai", r.content)))

\* handlers::anthropic::anthropic_handler from the routing decision on.
anthropic_dispatch(c, d, bytes, raw_json, is_streaming, r) ==
    IF ~d.ok THEN Failed(d)
    ELSE CASE d.value.backend = "Anthropic" /\ ~d.value.needs_transform ->
                forward_raw_request(c, bytes, is_streaming, r)
           [] d.value.backend \in {"OpenAI", "Upstream"}
                /\ d.value.needs_transform ->
                LET req == from_value_anthropic(raw_json) IN
                IF ~req.ok
                THEN Failed(Err("Transform", "Failed to deserialize"))
                ELSE LET openai_req == anthropic_to_openai(req.value, c) IN
                     IF ~openai_req.ok THEN Failed(openai_req)
                     ELSE IF is_streaming
                     THEN handle_streaming(c, openai_req.value,
                                           d.value.backend, r)
                     ELSE handle_non_streaming(c, openai_req.value,
                                               d.value.backend, r)
           [] OTHER -> Failed(Err("Internal", "Invalid routing decision"))

\* handlers::openai::openai_handler from the routing decision on.
openai_dispatch(c, d, req, is_streaming, r) ==
    IF ~d.ok THEN Failed(d)
    ELSE CASE d.value.backend = "OpenAI" /\ ~d.value.needs_transform ->
                forward_request(c, req, is_streaming, r)
           [] d.value.backend = "Anthropic" /\ d.value.needs_transform ->
                LET anthropic_req == openai_to_anthropic_request(req, c) IN
                IF ~anthropic_req.ok THEN Failed(anthropic_req)
                ELSE IF is_streaming
                THEN handle_transformed_streaming(c, anthropic_req.value, r)
                ELSE handle_transformed_non_streaming(c, anthropic_req.value,
                                                      r)
           [] OTHER -> Failed(Err("Internal", "Invalid routing decision"))

----------------------------------------------------------------------------
(* Requests the handlers are given *)

\* The body of a request for model m that decodes into the typed request of
\* its format.
HelloMessages(format) ==
    IF format = "Anthropic"
    THEN <<AnthropicMessage("user", AnthropicText(<<"Hello">>))>>
    ELSE <<OpenAIMessage("user", Some(OpenAIText(<<"Hello">>)), None, None)>>
ModelMember(m) == <<Member("model", JsonString(m))>>
MessagesMember(format) ==
    <<Member("messages", JsonArray(HelloMessages(format)))>>
MaxTokensMember(format) ==
    IF format = "Anthropic" THEN <<Member("max_tokens", JsonNumber(1024))>>
    ELSE << >>
WellFormedBody(format, m) ==
    JsonBytes(ModelMember(m) \o MessagesMember(format)
                \o MaxTokensMember(format), FALSE, TRUE)

\* Bodies a client sends: with or without the model, the messages, the
\* stream flag and a member that is no field of the typed request, with or
\* without white space, and one that is cut off.
RequestBodies(format, m) ==
    {JsonBytes(model \o messages \o MaxTokensMember(format) \o stream
                 \o unknown, spaced, TRUE) :
        model \in {<< >>, ModelMember(m)},
        messages \in {<< >>, MessagesMember(format)},
        stream \in {<< >>, <<Member("stream", JsonBool(TRUE))>>},
        unknown \in {<< >>, <<Member("custom", JsonNumber(1))>>},
        spaced \in BOOLEAN}
    \cup {JsonBytes(ModelMember(m), FALSE, FALSE)}

\* Answers of an upstream: the two kinds of response, an O response without
\* choices, a response cut off, JSON of another shape, an error status, and
\* no answer.
HelloOpenAIResponse ==
    OpenAIResponse("chatcmpl-1", <<"gpt-4">>,
        <<ResponseChoice(ChoiceMessage(Some(<<"Hi">>), None), Some("stop"))>>,
        OpenAIUsage(10, 5))
HelloAnthropicResponse ==
    AnthropicResponse("msg_1", <<ResponseText(<<"Hello">>)>>, <<"claude-3">>,
                      Some("end_turn"), AnthropicUsage(10, 5))
UpstreamFault == [error |-> [type |-> "overloaded_error"]]
Replies ==
    {Reply(200, Content(HelloOpenAIResponse, TRUE)),
     Reply(200, Content(OpenAIResponse("chatcmpl-1", <<"gpt-4">>, << >>,
                                       OpenAIUsage(10, 5)), TRUE)),
     Reply(200, Content(HelloAnthropicResponse, TRUE)),
     Reply(200, Content(HelloOpenAIResponse, FALSE)),
     Reply(200, Content(HelloAnthropicResponse, FALSE)),
     Reply(200, Content(UpstreamFault, TRUE)),
     Reply(500, Content(UpstreamFault, TRUE)),
     ConnectionFailed}

\* Configurations with every backend set up, one for each routing mode.
ProxyConfigs ==
    {Config(rm, Some(<<"https://api.example.com">>), Some("sk-key"),
            Some(<<"https://api.example.com">>), Some("sk-key"),
            Some(<<"https://api.example.com">>), Some("sk-key"), None, None) :
        rm \in RoutingModes}
ProxyModels == {<<"claude", "-3">>, <<"gpt", "-3">>}

RouterIdle ==
    /\ config = None /\ request_format = "none" /\ model_name = << >>
    /\ decision = None /\ forwarded = None /\ routerPc = "idle"
    /\ body = None /\ reply = None /\ sent = None /\ response = None

\* Any configuration and model, a body that decodes, an upstream that
\* answers.
RouterStart ==
    /\ config \in Configs /\ request_format \in RequestFormats
    /\ model_name \in Models
    /\ body = WellFormedBody(request_format, model_name)
    /\ reply = Reply(200, Content(HelloOpenAIResponse, TRUE))
    /\ decision = None /\ forwarded = None /\ routerPc = "request"
    /\ sent = None /\ response = None

\* Any body and any answer of the upstream, every backend configured.
ProxyStart ==
    /\ config \in ProxyConfigs /\ request_format \in RequestFormats
    /\ model_name \in ProxyModels
    /\ body \in RequestBodies(request_format, model_name)
    /\ reply \in Replies
    /\ decision = None /\ forwarded = None /\ routerPc = "request"
    /\ sent = None /\ response = None

\* POST /v1/messages
anthropic_handler ==
    /\ routerPc = "request" /\ request_format = "Anthropic"
    /\ LET raw_json == from_slice(body) IN
       IF ~raw_json.ok
       THEN /\ decision' = None /\ forwarded' = None /\ sent' = None
            /\ response' = Some(into_response(Err("Transform",
                                                  "Invalid JSON")))
       ELSE LET model == unwrap_or(as_str(get(raw_json.value, "model")),
                                   <<"unknown">>)
                is_streaming ==
                    unwrap_or(as_bool(get(raw_json.value, "stream")), FALSE)
                d == decide("Anthropic", model, config)
                call == anthropic_dispatch(config, d, body, raw_json.value,
                                           is_streaming, reply)
            IN /\ decision' = Some(d)
               /\ forwarded' = Some(call.request)
               /\ sent' = call.sent
               /\ response' = Some(call.response)
    /\ routerPc' = "done"
    /\ UNCHANGED <<config, request_format, model_name, body, reply, oaVars,
                   aoVars, byteVars, xfVars, taskVars>>

\* POST /v1/chat/completions
openai_handler ==
    /\ routerPc = "request" /\ request_format = "OpenAI"
    /\ LET raw_json == from_slice(body)
           req == from_value_openai(raw_json.value)
       IN
       IF ~raw_json.ok \/ ~req.ok
       THEN /\ decision' = None /\ forwarded' = None /\ sent' = None
            /\ response' = Some(into_response(Err("Transform",
                                   IF ~raw_json.ok THEN "Invalid JSON"
                                   ELSE "Failed to deserialize")))
       ELSE LET is_streaming == unwrap_or(req.value.stream, FALSE)
                d == decide("OpenAI", req.value.model, config)
                call == openai_dispatch(config, d, req.value, is_streaming,
                                        reply)
            IN /\ decision' = Some(d)
               /\ forwarded' = Some(call.request)
               /\ sent' = call.sent
               /\ response' = Some(call.response)
    /\ routerPc' = "done"
    /\ UNCHANGED <<config, request_format, model_name, body, reply, oaVars,
                   aoVars, byteVars, xfVars, taskVars>>

----------------------------------------------------------------------------
(* Concurrent translator instances.  Each call of create_stream builds its *)
(* own stream! block; the translator's state is the locals of that block   *)
(* (streaming/openai_to_anthropic.rs lines 15-23, anthropic_to_openai.rs   *)
(* lines 13-17).  The runtime polls the instances in any order.            *)

MaxTaskFrames == 2
TaskIds == {1, 2}
Directions == {"openai_to_anthropic", "anthropic_to_openai"}

\* What the upstream of one instance can deliver.
TaskFrames(direction) ==
    IF direction = "openai_to_anthropic"
    THEN {OneChoice("c1", None, Some("Hi"), None, None, None),
          OneChoice("c2", None, Some("yo"), None, None, None),
          OneChoice("c1", None, None, Some(<<OpenTool("t1", "search")>>), None, None),
          OneChoice("c1", None, None, None, Some("stop"), None)}
    ELSE {MessageStartEvent("m1", "claude-3"),
          MessageStartEvent("m2", "claude-x"),
          TextDelta("Hi"),
          MessageDeltaEvent(Some("end_turn"))}

\* The stream! block before its first poll.
create_stream(direction) ==
    [direction |-> direction,
     st |-> IF direction = "openai_to_anthropic" THEN OAInit ELSE AOInit,
     out |-> << >>, consumed |-> << >>, pc |-> "run"]

\* One item of an instance's upstream against that instance's locals: a
\* frame, or Err(e) (the O->A translator yields an error event, the A->O
\* translator yields nothing).
translate(direction, st, item) ==
    IF item.kind = "error"
    THEN [st |-> st,
          ev |-> IF direction = "openai_to_anthropic"
                 THEN <<ErrorEvent(item.detail)>> ELSE << >>]
    ELSE IF direction = "openai_to_anthropic" THEN OALine(st, item)
         ELSE AOLine(st, item)

\* Instances of one direction keep their locals in one place: those of the
\* lowest instance of that direction.
poll_shared_locals(all, i, item) ==
    LET k == CHOOSE j \in TaskIds :
                 /\ all[j].direction = all[i].direction
                 /\ \A h \in TaskIds :
                        all[h].direction = all[i].direction => j <= h
        r == translate(all[i].direction, all[k].st, item)
        shared == [all EXCEPT ![k] = [@ EXCEPT !.st = r.st]]
    IN [shared EXCEPT ![i] = [@ EXCEPT !.out = @ \o r.ev,
                                       !.consumed = Append(@, item),
                                       !.pc = IF item.kind = "error" THEN "done" ELSE @]]

\* The runtime polls instance i, whose upstream yields item.
poll(all, i, item) ==
    LET r == translate(all[i].direction, all[i].st, item) IN
    [all EXCEPT ![i] = [@ EXCEPT !.st = r.st, !.out = @ \o r.ev,
                                 !.consumed = Append(@, item),
                                 !.pc = IF item.kind = "error" THEN "done" ELSE @]]

TasksStart == tasks \in [TaskIds -> {create_stream(d) : d \in Directions}]

\* stream.next() of one instance yields Ok(bytes) completing a frame.
TaskFrame ==
    /\ \E i \in TaskIds :
         /\ tasks[i].pc = "run"
         /\ Len(tasks[i].consumed) < MaxTaskFrames
         /\ \E f \in TaskFrames(tasks[i].direction) : tasks' = poll(tasks, i, f)
    /\ UNCHANGED <<oaVars, aoVars, byteVars, routerVars, xfVars>>

\* stream.next() of one instance yields Err(e).
TaskError ==
    /\ \E i \in TaskIds :
         /\ tasks[i].pc = "run"
         /\ tasks' = poll(tasks, i, TransportError("timed out"))
    /\ UNCHANGED <<oaVars, aoVars, byteVars, routerVars, xfVars>>

\* stream.next() of one instance yields None.
TaskEnd ==
    /\ \E i \in TaskIds :
         /\ tasks[i].pc = "run"
         /\ tasks' = [tasks EXCEPT ![i].pc = "done"]
    /\ UNCHANGED <<oaVars, aoVars, byteVars, routerVars, xfVars>>

----------------------------------------------------------------------------
(* Specifications *)

(* One streaming request: the routing decision's direction picks one of    *)
(* the two translators, which then runs on its own upstream.               *)
Init == (\/ OAStart /\ AOIdle
         \/ OAIdle /\ AOStart) /\ BytesIdle /\ RouterIdle /\ XfIdle
        /\ TasksIdle
Next == OAFrame \/ OAError \/ OAEnd \/ AOFrame \/ AOError \/ AOEnd
Spec == Init /\ [][Next]_vars

(* The reassembly loop on its own, its upstream split into chunks in every *)
(* way the chunk bound allows.                                             *)
InitBytes ==
    BytesStart /\ OAIdle /\ AOIdle /\ RouterIdle /\ XfIdle /\ TasksIdle
NextBytes == BytesChunk \/ BytesEnd
SpecBytes == InitBytes /\ [][NextBytes]_vars

(* One request through a handler: the routing decision, then the backend   *)
(* call the handler dispatches to.                                         *)
InitRouter ==
    RouterStart /\ OAIdle /\ AOIdle /\ BytesIdle /\ XfIdle /\ TasksIdle
NextRouter == anthropic_handler \/ openai_handler
SpecRouter == InitRouter /\ [][NextRouter]_vars

(* One request through a handler with every backend configured: the body   *)
(* the client sends and the answer of the upstream are any.                *)
InitProxy ==
    ProxyStart /\ OAIdle /\ AOIdle /\ BytesIdle /\ XfIdle /\ TasksIdle
NextProxy == anthropic_handler \/ openai_handler
SpecProxy == InitProxy /\ [][NextProxy]_vars

(* Two translator instances of any directions, polled in any order.        *)
InitTasks ==
    TasksStart /\ OAIdle /\ AOIdle /\ BytesIdle /\ RouterIdle /\ XfIdle
NextTasks == TaskFrame \/ TaskError \/ TaskEnd
SpecTasks == InitTasks /\ [][NextTasks]_vars

(* One call of one of the four non-streaming transformers.                 *)
InitTransform ==
    XfStart /\ OAIdle /\ AOIdle /\ BytesIdle /\ RouterIdle /\ TasksIdle
NextTransform ==
    \/ CallAnthropicToOpenAI \/ CallAnthropicToOpenAIResponse
    \/ CallOpenAIToAnthropicRequest \/ CallOpenAIToAnthropic
SpecTransform == InitTransform /\ [][NextTransform]_vars

(* Everything that produces O-format output from A-format input: the A->O  *)
(* request and response transformers and the A->O stream translator.       *)
InitAToO ==
    /\ \/ XfStartAToO /\ AOIdle
       \/ XfIdle /\ AOStart
    /\ OAIdle /\ BytesIdle /\ RouterIdle /\ TasksIdle
NextAToO ==
    \/ CallAnthropicToOpenAI \/ CallAnthropicToOpenAIResponse
    \/ AOFrame \/ AOError \/ AOEnd
SpecAToO == InitAToO /\ [][NextAToO]_vars

----------------------------------------------------------------------------
(* Reading the streams *)

Last(seq) == seq[Len(seq)]
Indices(seq, type) == {k \in 1..Len(seq) : seq[k].type = type}
IsBlockEvent(e) ==
    e.type \in {"content_block_start", "content_block_delta", "content_block_stop"}
IsChunk(f) == f.kind = "chunk"
HasChoice(f) == f.kind = "chunk" /\ f.choices # << >>
Min(S) == CHOOSE i \in S : \A j \in S : i <= j

----------------------------------------------------------------------------
(* C1: in the O->A output, every content_block_start at index i is         *)
(* followed, before any later content_block_start, by content_block_delta  *)
(* events at index i only and by exactly one content_block_stop at index   *)
(* i.  Stated on every prefix of the output: up to the next start (or the  *)
(* end of what has been emitted) the block events carry index i, no delta  *)
(* follows a stop, there is at most one stop, and a next start finds       *)
(* exactly one.                                                            *)
C1_BlockLifecycle ==
    \A k \in Indices(oaOut, "content_block_start") :
        LET i == oaOut[k].index
            later == {j \in Indices(oaOut, "content_block_start") : j > k}
            end == IF later = {} THEN Len(oaOut) + 1 ELSE Min(later)
            stops == {j \in (k + 1)..(end - 1) : oaOut[j].type = "content_block_stop"}
            deltas == {j \in (k + 1)..(end - 1) : oaOut[j].type = "content_block_delta"}
        IN /\ \A j \in stops \cup deltas : oaOut[j].index = i
           /\ \A j \in deltas : \A m \in stops : j < m
           /\ Cardinality(stops) <= 1
           /\ later # {} => Cardinality(stops) = 1

(* C2: the indices of the content_block_start events of one O->A output    *)
(* stream are strictly increasing.                                         *)
C2_StartIndicesIncrease ==
    \A j, k \in Indices(oaOut, "content_block_start") :
        j < k => oaOut[j].index < oaOut[k].index

C4_NothingAfterMessageStop ==
    \A k \in Indices(oaOut, "message_stop") : k = Len(oaOut)

(* C4 as amended: one message_stop is emitted for each data: [DONE] frame, *)
(* when that frame is processed; it is the last event whenever [DONE] is   *)
(* the last thing the upstream delivered.                                  *)
C4_MessageStopPerDone ==
    /\ Cardinality(Indices(oaOut, "message_stop"))
         = Cardinality({i \in 1..Len(oaIn) : oaIn[i] = DoneFrame})
    /\ (oaIn # << >> /\ Last(oaIn) = DoneFrame)
         => (oaOut # << >> /\ Last(oaOut) = MessageStop)

\* The upstream ended after a final [DONE] that followed translated chunks.
C4_Witness ==
    /\ oaPc = "done" /\ Len(oaIn) >= 2 /\ Last(oaIn) = DoneFrame
    /\ Len(oaOut) >= 3 /\ Last(oaOut) = MessageStop
    /\ Cardinality(Indices(oaOut, "message_stop")) = 1

(* C5: on the recorded O-format stream the output is message_start (c1,    *)
(* gpt-4), content_block_start 0 text, content_block_delta 0 text_delta    *)
(* "Hi", content_block_stop 0, message_delta end_turn with output_tokens   *)
(* 1, message_stop, in this order.                                         *)
C5_RecordedO ==
    (oaFeed = "recorded" /\ oaPc = "done") =>
        oaOut = <<MessageStart("c1", "gpt-4"),
                  ContentBlockStart(0, "text"),
                  ContentBlockDelta(0, "text_delta", "Hi"),
                  ContentBlockStop(0),
                  MessageDelta(Some("end_turn"), Some(1)),
                  MessageStop>>

\* The recorded stream has been translated to its end.
C5_Witness ==
    /\ oaFeed = "recorded" /\ oaPc = "done"
    /\ oaIn = RecordedO /\ Len(oaOut) = 6

----------------------------------------------------------------------------
(* C6: on the recorded A-format stream the output is one chunk opening the *)
(* tool call (id t1, name search, empty arguments), one chunk per          *)
(* input_json_delta with that partial JSON as the arguments delta, one     *)
(* chunk with empty delta and finish_reason tool_calls, then data: [DONE]. *)
C6_RecordedA ==
    (aoFeed = "recorded" /\ aoPc = "done") =>
        aoOut = <<OChunk("m1", "claude-3",
                         ODelta(None, Some(<<OToolCall(Some("t1"), Some("function"),
                                                       Some("search"), "")>>)), None),
                  OChunk("m1", "claude-3",
                         ODelta(None, Some(<<OToolCall(None, None, None,
                                                       "{\"q\":\"r")>>)), None),
                  OChunk("m1", "claude-3",
                         ODelta(None, Some(<<OToolCall(None, None, None,
                                                       "ust\"}")>>)), None),
                  OChunk("m1", "claude-3", ODelta(None, None), Some("tool_calls")),
                  DoneLine>>

\* The recorded stream has been translated to its end.
C6_Witness ==
    /\ aoFeed = "recorded" /\ aoPc = "done"
    /\ aoIn = RecordedA /\ Len(aoOut) = 5

\* The texts of the text_delta events of an A-format upstream, in order.
RECURSIVE TextDeltasIn(_)
TextDeltasIn(frames) ==
    IF frames = << >> THEN << >>
    ELSE LET f == Head(frames) IN
         (IF /\ f.kind = "event" /\ f.type = "content_block_delta"
             /\ IsSome(f.delta) /\ f.delta[1].type = Some("text_delta")
             /\ IsSome(f.delta[1].text)
          THEN <<f.delta[1].text[1]>> ELSE << >>) \o TextDeltasIn(Tail(frames))

\* The delta.content of the chunks of an O-format output, in order.
RECURSIVE ContentsOut(_)
ContentsOut(chunks) ==
    IF chunks = << >> THEN << >>
    ELSE LET c == Head(chunks) IN
         (IF c # DoneLine /\ IsSome(c.delta.content)
          THEN <<c.delta.content[1]>> ELSE << >>) \o ContentsOut(Tail(chunks))

IsMessageStop(f) == f.kind = "event" /\ f.type = "message_stop"
Dones(chunks) == {k \in 1..Len(chunks) : chunks[k] = DoneLine}
CleanEnd(frames) == \A i \in 1..Len(frames) : frames[i].kind # "error"

(* C7 as claimed: every text_delta yields exactly one chunk with that      *)
(* content, and an upstream that ends without a transport error gets       *)
(* exactly one data: [DONE], as the last output.                           *)
C7_OneDoneOnCleanEnd ==
    /\ ContentsOut(aoOut) = TextDeltasIn(aoIn)
    /\ (aoPc = "done" /\ CleanEnd(aoIn)) =>
          /\ Cardinality(Dones(aoOut)) = 1
          /\ Last(aoOut) = DoneLine

(* C7 as amended: every text_delta yields exactly one chunk with that      *)
(* content, and one data: [DONE] is emitted for each message_stop event,   *)
(* when it is processed: it is the last output whenever message_stop is    *)
(* the last thing the upstream delivered.                                  *)
C7_OneDonePerMessageStop ==
    /\ ContentsOut(aoOut) = TextDeltasIn(aoIn)
    /\ Cardinality(Dones(aoOut))
         = Cardinality({i \in 1..Len(aoIn) : IsMessageStop(aoIn[i])})
    /\ (aoIn # << >> /\ IsMessageStop(Last(aoIn)))
         => (aoOut # << >> /\ Last(aoOut) = DoneLine)

\* Two text deltas were translated and the upstream ended after its single
\* message_stop.
C7_Witness ==
    /\ aoPc = "done" /\ Len(aoIn) = 3 /\ CleanEnd(aoIn)
    /\ IsMessageStop(Last(aoIn))
    /\ ContentsOut(aoOut) = <<"Hi", "yo">>
    /\ Len(aoOut) = 3 /\ Last(aoOut) = DoneLine

\* The non-empty delta.content fragments of an O-format upstream, in order.
RECURSIVE ContentFragments(_)
ContentFragments(frames) ==
    IF frames = << >> THEN << >>
    ELSE LET f == Head(frames) IN
         (IF /\ HasChoice(f) /\ IsSome(f.choices[1].content)
             /\ f.choices[1].content[1] # ""
          THEN <<f.choices[1].content[1]>> ELSE << >>)
         \o ContentFragments(Tail(frames))

RECURSIVE ArgumentsOf(_)
ArgumentsOf(tool_calls) ==
    IF tool_calls = << >> THEN << >>
    ELSE LET t == Head(tool_calls) IN
         (IF IsSome(t.function) /\ IsSome(t.function[1].arguments)
          THEN <<t.function[1].arguments[1]>> ELSE << >>)
         \o ArgumentsOf(Tail(tool_calls))

\* The tool-call arguments fragments of an O-format upstream, in order.
RECURSIVE ArgumentFragments(_)
ArgumentFragments(frames) ==
    IF frames = << >> THEN << >>
    ELSE LET f == Head(frames) IN
         (IF HasChoice(f) /\ IsSome(f.choices[1].tool_calls)
          THEN ArgumentsOf(f.choices[1].tool_calls[1]) ELSE << >>)
         \o ArgumentFragments(Tail(frames))

\* The payloads of the deltas of one type of an A-format output, in order.
RECURSIVE DeltasOut(_, _)
DeltasOut(events, delta) ==
    IF events = << >> THEN << >>
    ELSE LET e == Head(events) IN
         (IF e.type = "content_block_delta" /\ e.delta = delta
          THEN <<e.text>> ELSE << >>) \o DeltasOut(Tail(events), delta)

(* C8: the O->A translator neither reorders nor coalesces: the text_delta  *)
(* texts emitted are the non-empty delta.content fragments received, one   *)
(* for one and in order, and the input_json_delta values are the           *)
(* tool-call arguments fragments received, one for one and in order.       *)
C8_NoReorderNoCoalesce ==
    /\ DeltasOut(oaOut, "text_delta") = ContentFragments(oaIn)
    /\ DeltasOut(oaOut, "input_json_delta") = ArgumentFragments(oaIn)

\* Two different text fragments, an empty one between them, were received.
C8_Witness ==
    /\ Len(oaIn) = 3
    /\ DeltasOut(oaOut, "text_delta") = <<"Hi", "yo">>
    /\ HasChoice(oaIn[2]) /\ oaIn[2].choices[1].content = Some("")

(* C9: on a transport error the O->A translator emits exactly one error    *)
(* event of type stream_error with the error detail and leaves its loop,   *)
(* consuming and emitting nothing more; the A->O translator leaves its     *)
(* loop without emitting anything.                                         *)
C9_TransportError ==
    [][/\ (oaIn' # oaIn /\ Last(oaIn').kind = "error") =>
            /\ oaOut' = Append(oaOut, ErrorEvent(Last(oaIn').detail))
            /\ oaPc' = "done"
       /\ (aoIn' # aoIn /\ Last(aoIn').kind = "error") =>
            /\ aoOut' = aoOut
            /\ aoPc' = "done"
       /\ Cardinality(Indices(oaOut', "error"))
            = Cardinality({i \in 1..Len(oaIn') : oaIn'[i].kind = "error"})
       /\ oaPc = "done" => (oaIn' = oaIn /\ oaOut' = oaOut)
       /\ aoPc = "done" => (aoIn' = aoIn /\ aoOut' = aoOut)]_vars

\* A transport error ended an O->A stream that had already emitted events.
C9_Witness ==
    /\ oaPc = "done" /\ Len(oaIn) >= 2 /\ Last(oaIn).kind = "error"
    /\ Len(oaOut) >= 2 /\ Last(oaOut) = ErrorEvent("timed out")
    /\ Cardinality(Indices(oaOut, "error")) = 1

(* C10: what the reassembly loop hands to the frame parser depends only on *)
(* the concatenation of the upstream bytes: however the bytes were split   *)
(* into chunks, at the end of the stream the payloads are those of the     *)
(* same bytes arriving in one chunk.                                       *)
C10_ChunkingInvariant ==
    bytesPc = "done" => payloads = PushChunk(<< >>, << >>, wire).payloads

----------------------------------------------------------------------------
(* Router claims: checked under SpecRouter *)

\* What decide returned, once the handler ran.
Decided == decision[1]
AToO == Some("AnthropicToOpenAI")
OToA == Some("OpenAIToAnthropic")
IsConfigError(r) == ~r.ok /\ r.kind = "Config"
Has(url, key) == IsSome(url) /\ IsSome(key)

(* C11: in Transform and Passthrough modes decide returns an error for     *)
(* every O-format request; for an A-format request it returns              *)
(* {Generic-Upstream, transform, A->O} in Transform mode when the generic  *)
(* upstream URL is configured, {A-Native, no transform, no direction} in   *)
(* Passthrough mode when the A-native URL and key are both configured, and *)
(* a configuration error otherwise.                                        *)
C11_TransformAndPassthrough ==
    (routerPc = "done" /\ config.routing_mode \in {"Transform", "Passthrough"})
    => /\ request_format = "OpenAI" => ~Decided.ok
       /\ (request_format = "Anthropic" /\ config.routing_mode = "Transform")
          => IF IsSome(config.base_url)
             THEN Decided = Ok(RoutingDecision("Upstream", TRUE, AToO))
             ELSE IsConfigError(Decided)
       /\ (request_format = "Anthropic"
             /\ config.routing_mode = "Passthrough")
          => IF Has(config.anthropic_base_url, config.anthropic_api_key)
             THEN Decided = Ok(RoutingDecision("Anthropic", FALSE, None))
             ELSE IsConfigError(Decided)

\* Transform mode refused an A-format request for a Claude model because no
\* generic upstream URL is configured, although the A-native backend is.
C11_Witness ==
    /\ routerPc = "done" /\ config.routing_mode = "Transform"
    /\ request_format = "Anthropic" /\ model_name = <<"claude", "-3">>
    /\ config.base_url = None
    /\ Has(config.anthropic_base_url, config.anthropic_api_key)
    /\ IsConfigError(Decided)

\* The family decide infers for the request's model.
Target == infer_backend_from_model(model_name)
AutoCell(format, target) ==
    /\ routerPc = "done" /\ config.routing_mode \in {"Auto", "Gateway"}
    /\ request_format = format /\ Target = target

\* The (A, O) cell, as the claim and the code have it.
C12_AnthropicToOpenAICell ==
    AutoCell("Anthropic", "OpenAI")
    => IF Has(config.openai_base_url, config.openai_api_key)
       THEN Decided = Ok(RoutingDecision("OpenAI", TRUE, AToO))
       ELSE IF IsSome(config.base_url)
       THEN Decided = Ok(RoutingDecision("Upstream", TRUE, AToO))
       ELSE IsConfigError(Decided)

(* C12 as stated: in Auto and Gateway modes (A,A) -> A-Native without      *)
(* transform; (O,O) -> O-Native without transform; (O,A) -> A-Native with  *)
(* transform O->A; (A,O) -> transform A->O to O-Native when the O-native   *)
(* URL and key are both configured, otherwise to Generic-Upstream when its *)
(* URL is configured, otherwise a configuration error.                     *)
C12_AutoMatrixAsStated ==
    /\ AutoCell("Anthropic", "Anthropic")
       => Decided = Ok(RoutingDecision("Anthropic", FALSE, None))
    /\ AutoCell("OpenAI", "OpenAI")
       => Decided = Ok(RoutingDecision("OpenAI", FALSE, None))
    /\ AutoCell("OpenAI", "Anthropic")
       => Decided = Ok(RoutingDecision("Anthropic", TRUE, OToA))
    /\ C12_AnthropicToOpenAICell

(* C12, amended: the three cells with a single backend return their        *)
(* decision when that backend's URL and key are both configured and a      *)
(* configuration error otherwise; the (A,O) cell is as stated.             *)
C12_AutoMatrix ==
    /\ AutoCell("Anthropic", "Anthropic")
       => IF Has(config.anthropic_base_url, config.anthropic_api_key)
          THEN Decided = Ok(RoutingDecision("Anthropic", FALSE, None))
          ELSE IsConfigError(Decided)
    /\ AutoCell("OpenAI", "OpenAI")
       => IF Has(config.openai_base_url, config.openai_api_key)
          THEN Decided = Ok(RoutingDecision("OpenAI", FALSE, None))
          ELSE IsConfigError(Decided)
    /\ AutoCell("OpenAI", "Anthropic")
       => IF Has(config.anthropic_base_url, config.anthropic_api_key)
          THEN Decided = Ok(RoutingDecision("Anthropic", TRUE, OToA))
          ELSE IsConfigError(Decided)
    /\ C12_AnthropicToOpenAICell

\* Both O-compatible backends are configured and an A-format request for a
\* GPT model went to O-Native.
C12_Witness ==
    /\ AutoCell("Anthropic", "OpenAI") /\ model_name = <<"gpt", "-3">>
    /\ Has(config.openai_base_url, config.openai_api_key)
    /\ IsSome(config.base_url)
    /\ Decided = Ok(RoutingDecision("OpenAI", TRUE, AToO))

\* The configuration a backend needs.
Configured(backend) ==
    CASE backend = "Anthropic" ->
           Has(config.anthropic_base_url, config.anthropic_api_key)
      [] backend = "OpenAI" ->
           Has(config.openai_base_url, config.openai_api_key)
      [] backend = "Upstream" -> IsSome(config.base_url)

(* C13: whenever decide returns a decision with backend B, the             *)
(* configuration B needs is present (A-Native and O-Native: base URL and   *)
(* API key; Generic-Upstream: base URL), so the backend call that follows  *)
(* builds a non-empty upstream URL and does not fail with an "API key not  *)
(* configured" error.                                                      *)
C13_ConfigPresentForDecision ==
    (routerPc = "done" /\ Decided.ok)
    => /\ Configured(Decided.value.backend)
       /\ forwarded[1].ok
       /\ forwarded[1].value.url # << >>

\* A decision for the generic upstream, which has a URL set to the empty
\* string and no key: the request goes out to a non-empty URL without a key.
C13_Witness ==
    /\ routerPc = "done" /\ Decided.ok
    /\ Decided.value.backend = "Upstream"
    /\ config.base_url = Some(<< >>) /\ config.api_key = None
    /\ forwarded[1] = Ok(UpstreamRequest(<<"/v1/chat/completions">>, None))

\* The spellings, in the model strings, of the A-family patterns.
StartsWithClaude == model_name[1] \in {"claude", "CLAUDE"}
ContainsAnthropic ==
    \E i \in 1..Len(model_name) :
        model_name[i] \in {"anthropic/", "anthropic-", "Anthropic-"}
MatchesOpenAIPattern ==
    \/ model_name[1] = "gpt"
    \/ \E i \in 1..Len(model_name) : model_name[i] = "OpenAI/"

(* C14: model-family inference is case-insensitive and first-match-wins: a *)
(* model that starts with claude or contains anthropic/ or anthropic- is   *)
(* A-family even when it also matches an O-family pattern; every other     *)
(* model string is O-family; the inference never yields Generic-Upstream.  *)
C14_ModelFamily ==
    routerPc # "idle"
    => /\ (StartsWithClaude \/ ContainsAnthropic) => Target = "Anthropic"
       /\ ~(StartsWithClaude \/ ContainsAnthropic) => Target = "OpenAI"
       /\ Target # "Upstream"
       /\ (routerPc = "done" /\ config.routing_mode \in {"Auto", "Gateway"}
             /\ Decided.ok /\ Decided.value.transform_direction # AToO)
          => Decided.value.backend = Target

\* An O-format request for OpenAI/Anthropic-, which matches a pattern of
\* each family in upper case, was sent to A-Native.
C14_Witness ==
    /\ routerPc = "done" /\ config.routing_mode = "Auto"
    /\ model_name = <<"OpenAI/", "Anthropic-">>
    /\ MatchesOpenAIPattern /\ ContainsAnthropic
    /\ request_format = "OpenAI"
    /\ Decided = Ok(RoutingDecision("Anthropic", TRUE, OToA))

----------------------------------------------------------------------------
(* Transformer claims: checked under SpecTransform, and C19 under SpecAToO *)

\* The call of fn has returned.
XfDone(fn) == xfPc = "done" /\ xfIn.fn = fn
Returned == xfOut[1]
KnownStopReasons == {"end_turn", "tool_use", "max_tokens"}
KnownFinishReasons == {"stop", "tool_calls", "length"}

(* C15: the stop-reason mapping is total in both directions and            *)
(* round-trips on the three known values: A->O then O->A is the identity   *)
(* on {end_turn, tool_use, max_tokens}, O->A then A->O is the identity on  *)
(* {stop, tool_calls, length}, and every unknown input maps to stop (A->O) *)
(* or end_turn (O->A).                                                     *)
C15_StopReasonRoundTrip ==
    /\ (XfDone("anthropic_to_openai_response")
          /\ IsSome(xfIn.arg.stop_reason))
       => LET r == xfIn.arg.stop_reason[1]
              f == Returned.value.choices[1].finish_reason
          IN /\ IsSome(f)
             /\ r \in KnownStopReasons
                => /\ f[1] \in KnownFinishReasons
                   /\ ResponseStopReason(f[1]) = r
                   /\ map_stop_reason(f) = Some(r)
             /\ r \notin KnownStopReasons => f = Some("stop")
    /\ (XfDone("openai_to_anthropic") /\ xfIn.arg.choices # << >>
          /\ IsSome(xfIn.arg.choices[1].finish_reason))
       => LET f == xfIn.arg.choices[1].finish_reason[1]
              r == Returned.value.stop_reason
          IN /\ Returned.ok /\ IsSome(r)
             /\ r = map_stop_reason(Some(f))
             /\ f \in KnownFinishReasons
                => /\ r[1] \in KnownStopReasons
                   /\ ResponseFinishReason(r[1]) = f
             /\ f \notin KnownFinishReasons => r = Some("end_turn")

\* An O response that stopped for length came back as max_tokens, which the
\* other direction maps to length again.
C15_Witness ==
    /\ XfDone("openai_to_anthropic") /\ xfIn.arg.choices # << >>
    /\ xfIn.arg.choices[1].finish_reason = Some("length")
    /\ Returned.ok /\ Returned.value.stop_reason = Some("max_tokens")
    /\ ResponseFinishReason("max_tokens") = "length"

(* C16: the non-streaming A->O response transformer maps stop_reason to    *)
(* finish_reason as end_turn->stop, tool_use->tool_calls,                  *)
(* max_tokens->length, and both any other value and an absent stop_reason  *)
(* to stop.                                                                *)
C16_FinishReason ==
    XfDone("anthropic_to_openai_response")
    => Returned.value.choices[1].finish_reason
         = Some(CASE xfIn.arg.stop_reason = Some("end_turn") -> "stop"
                  [] xfIn.arg.stop_reason = Some("tool_use") -> "tool_calls"
                  [] xfIn.arg.stop_reason = Some("max_tokens") -> "length"
                  [] OTHER -> "stop")

\* The texts of the Text blocks of a response, in order.
TextsOf(blocks) ==
    filter_map([i \in 1..Len(blocks) |->
        IF blocks[i].type = "text" THEN Some(blocks[i].text) ELSE None])

RECURSIVE Concat(_)
Concat(strings) ==
    IF strings = << >> THEN << >> ELSE Head(strings) \o Concat(Tail(strings))

(* C17: the non-streaming A->O response transformer concatenates the text  *)
(* of all Text blocks of the A response, in order, as the O message        *)
(* content string.                                                         *)
C17_TextConcatenated ==
    (XfDone("anthropic_to_openai_response")
       /\ TextsOf(xfIn.arg.content) # << >>)
    => Returned.value.choices[1].message.content
         = Some(Concat(TextsOf(xfIn.arg.content)))

\* The texts of the system messages of an O request, in order.
SystemTextsOf(messages) ==
    filter_map([i \in 1..Len(messages) |->
        IF messages[i].role = "system" /\ IsSome(messages[i].content)
        THEN Some(OpenAIContentText(messages[i].content[1])) ELSE None])

(* C18: the O->A request transformer collects all system-role messages of  *)
(* the O request into a single A system string: the text of each of them,  *)
(* in order, joined by newlines.                                           *)
C18_SystemMessagesJoined ==
    (XfDone("openai_to_anthropic_request")
       /\ SystemTextsOf(xfIn.arg.messages) # << >>)
    => Returned.value.system
         = Some(SystemSingle(join(SystemTextsOf(xfIn.arg.messages), "\n")))

\* A request or response with its Thinking blocks taken out.
NotThinking(block) == block.type # "thinking"
RequestWithoutThinking(req) ==
    [req EXCEPT !.messages =
        [i \in 1..Len(@) |->
            IF @[i].content.variant = "Blocks"
            THEN AnthropicMessage(@[i].role,
                    AnthropicBlocks(SelectSeq(@[i].content.blocks,
                                              NotThinking)))
            ELSE @[i]]]
ResponseWithoutThinking(resp) ==
    [resp EXCEPT !.content = SelectSeq(@, NotThinking)]
IsThinkingFrame(f) ==
    /\ f.kind = "event"
    /\ \/ /\ f.type = "content_block_start" /\ IsSome(f.content_block)
          /\ f.content_block[1].type = Some("thinking")
       \/ /\ f.type = "content_block_delta" /\ IsSome(f.delta)
          /\ f.delta[1].type = Some("thinking_delta")

(* C19: thinking content never appears in an O-format output: the A->O     *)
(* request transformer and the A->O response transformer return what they  *)
(* return for the same input without its Thinking blocks, and the A->O     *)
(* stream translator emits no chunk for a thinking content_block_start or  *)
(* a thinking_delta.                                                       *)
C19_NoThinkingInOutput ==
    [][/\ (xfPc' = "done" /\ xfIn.fn = "anthropic_to_openai")
          => xfOut' = Some(anthropic_to_openai(
                              RequestWithoutThinking(xfIn.arg), xfIn.config))
       /\ (xfPc' = "done" /\ xfIn.fn = "anthropic_to_openai_response")
          => xfOut' = Some(anthropic_to_openai_response(
                              ResponseWithoutThinking(xfIn.arg)))
       /\ (aoIn' # aoIn /\ IsThinkingFrame(Last(aoIn')))
          => aoOut' = aoOut]_vars

\* An assistant message of a Thinking block and a Text block became one
\* message with the text alone.
C19_Witness ==
    /\ XfDone("anthropic_to_openai")
    /\ xfIn.arg.messages
         = <<AnthropicMessage("assistant",
                AnthropicBlocks(<<BlockThinking(<<"hmm">>),
                                  BlockText(<<"Hello">>)>>))>>
    /\ Returned.ok
    /\ Returned.value.messages
         = <<OpenAIMessage("assistant", Some(OpenAIText(<<"Hello">>)),
                           None, None)>>

\* A request without the messages whose role is outside the defined set.
OpenAIRoleDefined(msg) == msg.role \in {"system", "user", "assistant", "tool"}
AnthropicRoleDefined(msg) == msg.role \in {"user", "assistant"}
DefinedRolesOnly(req, Defined(_)) ==
    [req EXCEPT !.messages = SelectSeq(@, Defined)]

(* C20: messages whose role is outside the defined set are dropped and     *)
(* never cause an error, in both request transformers: an O request        *)
(* message with a role other than system/user/assistant/tool produces no   *)
(* A message, and an A request message with a role other than              *)
(* user/assistant produces no O message.                                   *)
C20_UnknownRolesDropped ==
    /\ XfDone("openai_to_anthropic_request")
       => /\ Returned.ok
          /\ Returned = openai_to_anthropic_request(
                            DefinedRolesOnly(xfIn.arg, OpenAIRoleDefined),
                            xfIn.config)
    /\ XfDone("anthropic_to_openai")
       => /\ Returned.ok
          /\ Returned = anthropic_to_openai(
                            DefinedRolesOnly(xfIn.arg, AnthropicRoleDefined),
                            xfIn.config)

\* The messages of an O request that are not system prompts, the ToolUse
\* blocks of an A message, and the JSON value an argument text stands for.
CarriesMessage(msg) == msg.role \in {"user", "assistant", "tool"}
IsToolUse(block) == block.type = "tool_use"
ToolUsesOf(content) ==
    IF content.variant = "Blocks" THEN SelectSeq(content.blocks, IsToolUse)
    ELSE << >>
ValueOf(arguments) ==
    IF \E v \in JsonValues : to_string(v) = arguments
    THEN CHOOSE v \in JsonValues : to_string(v) = arguments
    ELSE EmptyObject

(* C21: the O->A request transformer preserves tool-call pairing: every    *)
(* tool_call of an assistant message becomes a ToolUse block with the same *)
(* id and name, its input the parsed arguments or {} when they are not     *)
(* valid JSON, and every tool-role message becomes, at its place among the *)
(* messages, a user A message of exactly one ToolResult whose tool_use_id  *)
(* is the message's tool_call_id.                                          *)
C21_ToolCallPairing ==
    XfDone("openai_to_anthropic_request")
    => LET kept == SelectSeq(xfIn.arg.messages, CarriesMessage)
           out == Returned.value.messages
       IN /\ Returned.ok
          /\ Len(out) = Len(kept)
          /\ \A i \in 1..Len(kept) :
               /\ kept[i].role = "assistant"
                  => LET calls == IF IsSome(kept[i].tool_calls)
                                  THEN kept[i].tool_calls[1] ELSE << >>
                         uses == ToolUsesOf(out[i].content)
                     IN /\ out[i].role = "assistant"
                        /\ Len(uses) = Len(calls)
                        /\ \A k \in 1..Len(calls) :
                             /\ uses[k].id = calls[k].id
                             /\ uses[k].name = calls[k].function.name
                             /\ uses[k].input
                                  = ValueOf(calls[k].function.arguments)
               /\ kept[i].role = "tool"
                  => /\ out[i].role = "user"
                     /\ out[i].content.variant = "Blocks"
                     /\ Len(out[i].content.blocks) = 1
                     /\ out[i].content.blocks[1].type = "tool_result"
                     /\ Some(out[i].content.blocks[1].tool_use_id)
                          = kept[i].tool_call_id

----------------------------------------------------------------------------
(* Handler claims: C22 and C23 under SpecProxy, C27 under SpecRouter *)

\* What the request asks for, as its body says it.
RequestedModel == as_str(get(JsonObject(body.members), "model"))
RequestedStream ==
    unwrap_or(as_bool(get(JsonObject(body.members), "stream")), FALSE)
\* The response type the upstream of a transformed request is expected to
\* answer with.
ExpectedReplies ==
    IF Decided.value.transform_direction = AToO
    THEN {v \in {r.content.value : r \in Replies} : "choices" \in DOMAIN v}
    ELSE {HelloAnthropicResponse}
IsProxyError(r, prefix) ==
    /\ r.content.complete
    /\ DOMAIN r.content.value = {"error"}
    /\ r.content.value.error.type = "proxy_error"
    /\ r.content.value.error.message[1] = prefix

(* C22: when the upstream answers a non-streaming transformed request with *)
(* a 2xx status and a body that is not the JSON of the expected response,  *)
(* the proxy returns a Serialization error: status 400 with the            *)
(* proxy_error envelope.                                                   *)
C22_UnparseableUpstreamBody ==
    (/\ routerPc = "done" /\ IsSome(decision) /\ Decided.ok
     /\ Decided.value.needs_transform /\ ~RequestedStream
     /\ IsSome(sent)
     /\ reply.delivered /\ is_success(reply.status)
     /\ (~reply.content.complete \/ reply.content.value \notin ExpectedReplies))
    => /\ response[1].status = 400
       /\ IsProxyError(response[1], "JSON error: ")

\* The decision decide returns for the body's model when it is the native
\* passthrough of the endpoint.
NativePassthrough ==
    /\ body.complete
    /\ request_format = "OpenAI" => IsSome(RequestedModel)
    /\ decide(request_format, unwrap_or(RequestedModel, <<"unknown">>), config)
         = Ok(RoutingDecision(request_format, FALSE, None))

(* C23: on both POST endpoints, when the routing decision is native        *)
(* passthrough (A request to A-Native, O request to O-Native), the body    *)
(* sent upstream is exactly the bytes received: no member is dropped,      *)
(* added or re-encoded, and the request is not rejected for failing to     *)
(* decode into the typed request.                                          *)
C23_PassthroughBytesUntouched ==
    (routerPc = "done" /\ NativePassthrough)
    => /\ IsSome(forwarded) /\ forwarded[1].ok
       /\ sent = Some(body)

\* The shapes of a decision for each endpoint.
DecisionShapes(format) ==
    IF format = "Anthropic"
    THEN {RoutingDecision("Anthropic", FALSE, None),
          RoutingDecision("OpenAI", TRUE, AToO),
          RoutingDecision("Upstream", TRUE, AToO)}
    ELSE {RoutingDecision("OpenAI", FALSE, None),
          RoutingDecision("Anthropic", TRUE, OToA)}

(* C27: every decision decide returns has one of five shapes: (A-Native,   *)
(* no transform, no direction), (O-Native, transform, A->O) and            *)
(* (Generic-Upstream, transform, A->O) for A-format requests only,         *)
(* (O-Native, no transform, no direction) and (A-Native, transform, O->A)  *)
(* for O-format requests only; so needs_transform holds exactly when a     *)
(* direction is set, and neither handler's dispatch reaches its "Invalid   *)
(* routing decision" error.                                                *)
C27_DecisionShapes ==
    (routerPc = "done" /\ IsSome(decision))
    => /\ Decided.ok
          => /\ Decided.value \in DecisionShapes(request_format)
             /\ Decided.value.needs_transform
                  <=> IsSome(Decided.value.transform_direction)
       /\ ~forwarded[1].ok
          => forwarded[1].message # "Invalid routing decision"
       /\ response[1].status = 500
          => response[1].content.value.error.message
               # <<"Invalid routing decision">>

\* An O-format request for a Claude model was decided (A-Native, transform,
\* O->A) and dispatched to the A-native backend.
C27_Witness ==
    /\ routerPc = "done" /\ request_format = "OpenAI"
    /\ config.routing_mode = "Gateway"
    /\ Decided = Ok(RoutingDecision("Anthropic", TRUE, OToA))
    /\ forwarded[1].ok
    /\ forwarded[1].value.url = <<"https://api.example.com", "/v1/messages">>
    /\ IsSome(sent)


----------------------------------------------------------------------------
(* Concurrency claims *)

\* What an instance emits when it is the only one running: the replay of
\* its own upstream from the initial locals.
RECURSIVE Alone(_, _, _)
Alone(direction, st, items) ==
    IF items = << >> THEN << >>
    ELSE LET r == translate(direction, st, Head(items)) IN
         r.ev \o Alone(direction, r.st, Tail(items))

----------------------------------------------------------------------------
(* Stream translator claims *)

\* The delta type that belongs in a block of a kind.
DeltaOf(block) ==
    CASE block = "thinking" -> "thinking_delta"
      [] block = "text" -> "text_delta"
      [] block = "tool_use" -> "input_json_delta"
      [] OTHER -> "none"

\* The positions before k at which a block was started at the index of the
\* event at position k.
StartsBefore(out, k) ==
    {j \in 1..(k - 1) : /\ out[j].type = "content_block_start"
                        /\ out[j].index = out[k].index}

\* C25: every content_block_delta the O->A stream translator has emitted
\* has the delta type of the block most recently started at its index:
\* thinking_delta only in a thinking block, text_delta only in a text
\* block, input_json_delta only in a tool_use block.
C25_DeltaMatchesOpenBlock ==
    \A k \in 1..Len(oaOut) :
        oaOut[k].type = "content_block_delta" =>
            /\ StartsBefore(oaOut, k) # {}
            /\ LET j == CHOOSE j \in StartsBefore(oaOut, k) :
                            \A h \in StartsBefore(oaOut, k) : h <= j
               IN oaOut[k].delta = DeltaOf(oaOut[j].block)

\* The locals and the output of a translator that starts from its initial
\* locals and is given the items one after the other.
RECURSIVE Replay(_, _, _)
Replay(direction, st, items) ==
    IF items = << >> THEN [st |-> st, ev |-> << >>]
    ELSE LET r == translate(direction, st, Head(items))
             rest == Replay(direction, r.st, Tail(items))
         IN [st |-> rest.st, ev |-> r.ev \o rest.ev]

NotMalformed(frame) == frame.kind # "malformed"

\* C26: a malformed frame is skipped by both stream translators: the locals
\* and the output of a translator are those of the same translator given
\* its upstream without the malformed frames, so such a frame emits
\* nothing, changes no local, and does not change what later frames yield.
C26_MalformedFrameSkipped ==
    /\ LET r == Replay("openai_to_anthropic", OAInit, SelectSeq(oaIn, NotMalformed))
       IN r.st = oa /\ r.ev = oaOut
    /\ LET r == Replay("anthropic_to_openai", AOInit, SelectSeq(aoIn, NotMalformed))
       IN r.st = ao /\ r.ev = aoOut

\* A malformed frame arrived between two content chunks of an O-format
\* upstream, and both chunks were translated into the one text block.
C26_Witness ==
    /\ oaIn = <<OneChoice("c1", None, Some("Hi"), None, None, None),
                MalformedFrame,
                OneChoice("c1", None, Some("yo"), None, None, None)>>
    /\ oaOut[Len(oaOut)] = ContentBlockDelta(0, "text_delta", "yo")
    /\ oa.has_sent_message_start

----------------------------------------------------------------------------
(* A->O request transformer: messages with block content *)

IsToolResult(block) == block.type = "tool_result"
IsToolUseBlock(block) == block.type = "tool_use"
IsCarried(block) == block.type \in {"text", "image", "tool_use"}

\* The request has no system prompt and its last message has block
\* content; the messages before it are plain text, one O message each.
BlockMessageConverted ==
    /\ XfDone("anthropic_to_openai") /\ Returned.ok
    /\ xfIn.arg.system = None
    /\ Last(xfIn.arg.messages).content.variant = "Blocks"
    /\ \A i \in 1..(Len(xfIn.arg.messages) - 1) :
          xfIn.arg.messages[i].content.variant = "Text"
ConvertedFrom ==
    SubSeq(Returned.value.messages, Len(xfIn.arg.messages),
           Len(Returned.value.messages))

\* C28: an A message with block content yields one tool-role O message
\* per ToolResult block (tool_call_id = tool_use_id, in block order),
\* followed by at most one envelope keeping the original role; the
\* envelope is emitted exactly when the message has a Text, Image or
\* ToolUse block, carries every ToolUse as a tool call with the same id
\* and name, and is the envelope of the same message without its
\* ToolResult and Thinking blocks.
C28_ToolResultsThenEnvelope ==
    BlockMessageConverted =>
        LET msg == Last(xfIn.arg.messages)
            results == SelectSeq(msg.content.blocks, IsToolResult)
            carried == SelectSeq(msg.content.blocks, IsCarried)
            uses == SelectSeq(msg.content.blocks, IsToolUseBlock)
            out == ConvertedFrom
            n == Len(results)
        IN /\ Len(out) = n + (IF carried # << >> THEN 1 ELSE 0)
           /\ \A i \in 1..n :
                 /\ out[i].role = "tool"
                 /\ out[i].tool_call_id = Some(results[i].tool_use_id)
                 /\ out[i].tool_calls = None
           /\ carried # << >> =>
                 LET envelope == out[n + 1]
                     calls == unwrap_or(envelope.tool_calls, << >>)
                 IN /\ envelope.role = msg.role
                    /\ envelope.tool_call_id = None
                    /\ Len(calls) = Len(uses)
                    /\ \A i \in 1..Len(uses) :
                          /\ calls[i].id = uses[i].id
                          /\ calls[i].function.name = uses[i].name
                    /\ <<envelope>> =
                          convert_message(AnthropicMessage(msg.role,
                                              AnthropicBlocks(carried)))

\* A message of a ToolUse block and a ToolResult block became the tool
\* message followed by the envelope with the tool call.
C28_Witness ==
    /\ BlockMessageConverted
    /\ Last(xfIn.arg.messages).content.blocks
         = <<BlockToolUse("toolu_1", "search", QueryObject),
             BlockToolResult("toolu_1", ToolResultText(<<"42">>))>>
    /\ Len(ConvertedFrom) = 2
    /\ ConvertedFrom[1].role = "tool"
    /\ IsSome(ConvertedFrom[2].tool_calls)

----------------------------------------------------------------------------
(* Streaming against non-streaming *)

\* What the response transformers make of a complete response that ends
\* for the given reason.
NonStreamingStopReason(finish_reason) ==
    openai_to_anthropic(
        OpenAIResponse("chatcmpl-1", <<"gpt-4">>,
            <<ResponseChoice(ChoiceMessage(None, None), Some(finish_reason))>>,
            OpenAIUsage(10, 5))).value.stop_reason
NonStreamingFinishReason(stop_reason) ==
    anthropic_to_openai_response(
        AnthropicResponse("msg_1", << >>, <<"claude-3">>, Some(stop_reason),
            AnthropicUsage(10, 5))).value.choices[1].finish_reason

\* The frame consumed last carries a reason for ending.
OFinishArrived ==
    /\ oaIn # << >> /\ Last(oaIn).kind = "chunk"
    /\ Last(oaIn).choices # << >>
    /\ IsSome(Last(oaIn).choices[1].finish_reason)
AStopArrived ==
    /\ aoIn # << >> /\ Last(aoIn).kind = "event"
    /\ Last(aoIn).type = "message_delta"
    /\ IsSome(Last(aoIn).delta)
    /\ IsSome(Last(aoIn).delta[1].stop_reason)

\* C29: the streaming and the non-streaming paths map stop reasons alike:
\* the finish chunk of the A->O stream translator carries the
\* finish_reason that anthropic_to_openai_response gives for the same
\* stop_reason, and the message_delta of the O->A stream translator
\* carries the stop_reason that openai_to_anthropic gives for the same
\* finish_reason.
C29_SameStopReasonMapping ==
    /\ OFinishArrived =>
          /\ Last(oaOut).type = "message_delta"
          /\ Last(oaOut).stop_reason
               = NonStreamingStopReason(Last(oaIn).choices[1].finish_reason[1])
    /\ AStopArrived =>
          /\ Last(aoOut).object = "chat.completion.chunk"
          /\ Last(aoOut).finish_reason
               = NonStreamingFinishReason(Last(aoIn).delta[1].stop_reason[1])

\* The O->A stream translator has just read finish_reason "length" and
\* emitted a message_delta with stop_reason "max_tokens".
C29_Witness ==
    /\ OFinishArrived
    /\ Last(oaIn).choices[1].finish_reason = Some("length")
    /\ Last(oaOut).type = "message_delta"
    /\ Last(oaOut).stop_reason = Some("max_tokens")

----------------------------------------------------------------------------
(* Frames and their terminator *)

\* The bytes received in a step hold the second byte of a blank-line
\* terminator (its first byte may have come with an earlier chunk).
TerminatorReceived ==
    \E i \in 1..(Len(wire) - 1) :
        /\ wire[i] = NL /\ wire[i + 1] = NL
        /\ wirePos < i + 1 /\ i + 1 <= wirePos'

\* C30: a frame is translated only once its terminating blank line has
\* been received: payloads are handed on only in a step that received the
\* end of a terminator, after each chunk the buffer holds no complete
\* frame, and when the upstream ends what the buffer holds is dropped
\* without a payload.
C30_OnlyTerminatedFrames ==
    [][/\ Find(buffer') = None
       /\ payloads' # payloads => (wirePos' > wirePos /\ TerminatorReceived)
       /\ (bytesPc = "run" /\ bytesPc' = "done") =>
             (payloads' = payloads /\ wirePos' = wirePos)]_vars

\* The upstream ended while the buffer held a data: line without its
\* terminator; only the frame before it was handed on.
C30_Witness ==
    /\ bytesPc = "done"
    /\ buffer = DataPrefix \o <<"y">>
    /\ payloads = <<(<<"x">>)>>
====
